---- MODULE Spec2Model ----
(***************************************************************************)
(* NodePlay: animated data-structure models (lists, stack, queue, binary   *)
(* search tree) built on BaseStructure.  Every public operation is an      *)
(* async method guarded by animationInProcess / isInit.                    *)
(***************************************************************************)
EXTENDS Integers, Sequences, FiniteSets, TLC

VARIABLES
    variant,             \* which concrete class the instance is
    isInit,              \* BaseStructure.isInit
    animationInProcess,  \* BaseStructure.animationInProcess
    nodes,               \* BaseStructure.nodes
    edges,               \* BaseStructure.edges
    activeNode,          \* SinglyLinkedList.activeNode
    lastNode,            \* CircularSinglyLinkedList.lastNode  (object reference)
    firstNode,           \* CircularSinglyLinkedList.firstNode (object reference)
    addingInProcees,     \* CircularSinglyLinkedList.addingInProcees
    treeNodes,           \* BinarySearchTree.treeNodes
    initNumber,          \* ArrayStructure.initNumber
    structureNodeArray,  \* ArrayStructure.structureNodeArray (slot values)
    topIndex,            \* StackClass.topIndex
    beginIndex,          \* QueueClass.beginIndex
    endIndex,            \* QueueClass.endIndex
    tasks,               \* async method invocations that are suspended at a wait
    logged,              \* keys handed to the logger by the last step
    reported,            \* values handed to animationStatusCallback by the last step
    called,              \* the method invocation the last step belongs to
    awaited              \* the caller awaits every returned promise before its next call

vars == <<variant, isInit, animationInProcess, nodes, edges, activeNode,
          lastNode, firstNode, addingInProcees, treeNodes, initNumber,
          structureNodeArray, topIndex, beginIndex, endIndex, tasks, logged,
          reported, called, awaited>>

\* the part of the state that belongs to the structure itself
structure == <<isInit, animationInProcess, nodes, edges, activeNode, lastNode,
               firstNode, addingInProcees, treeNodes, initNumber,
               structureNodeArray, topIndex, beginIndex, endIndex>>

(***************************************************************************)
(* Bounds                                                                  *)
(***************************************************************************)
NegKeys == 2        \* keys run from -NegKeys ...
MaxKey == 1         \* ... to MaxKey when the caller awaits every call
FreeMaxKey == 1     \* and from 0 to FreeMaxKey when it does not

\* JavaScript null in a number-typed field
null == -1

(***************************************************************************)
(* Tree node ids are strings.  A string is kept as the pieces the code     *)
(* builds it from: literal prefixes, an optional '-' sign, the digits and  *)
(* literal suffixes, so that ===, Number() and the /\d+/ match can be      *)
(* computed.  num = -1 means the string holds no digits.                   *)
(***************************************************************************)
Str(pre, neg, num, suf) == [pre |-> pre, neg |-> neg, num |-> num, suf |-> suf]

\* JavaScript null in an id-typed field (left, right, parentId)
nullId == Str(<<"(null)">>, FALSE, -1, <<>>)

\* String(k) as produced by normalizeInput for an accepted integer
normalizeInput(k) == Str(<<>>, k < 0, IF k < 0 THEN -k ELSE k, <<>>)

Keys == {normalizeInput(k) : k \in -NegKeys..MaxKey}
FreeKeys == {normalizeInput(k) : k \in 0..FreeMaxKey}

\* a log key or status text, in the same representation
LogKey(k) == Str(<<k>>, FALSE, -1, <<>>)

nullNodeId == Str(<<"nullNode">>, FALSE, -1, <<>>)
NULL == Str(<<"NULL">>, FALSE, -1, <<>>)
initPointerId == Str(<<"initPointer">>, FALSE, -1, <<>>)
nodeCursorId == Str(<<"nodeCursor">>, FALSE, -1, <<>>)

\* `null-${id}-left` and `null-${id}-right`
nullChildId(id, side) ==
    Str(<<"null-">> \o id.pre, id.neg, id.num, id.suf \o <<side>>)

\* `new-${id}`
newId(id) == Str(<<"new-">> \o id.pre, id.neg, id.num, id.suf)

\* Number(s) is a number (not NaN) only for an optionally signed digit string
IsNumber(s) == s.pre = <<>> /\ s.suf = <<>> /\ s.num >= 0
Number(s) == IF s.neg THEN -s.num ELSE s.num
\* a < b and a > b on Number(): false as soon as one side is NaN
NumLess(a, b) == IsNumber(a) /\ IsNumber(b) /\ Number(a) < Number(b)
NumGreater(a, b) == IsNumber(a) /\ IsNumber(b) /\ Number(a) > Number(b)

isNullNode(id) ==
    id # nullId /\ id.pre # <<>> /\ id.pre[1] \in {"null-", "nullNode"}

isNodeValid(id) == id # nullId /\ ~isNullNode(id)

\* first run of digits of the string, sign dropped; -1 without digits
extractNumericId(id) == id.num

(***************************************************************************)
(* treeNodes is an array of objects; ref is the identity of the object, so *)
(* that a local variable keeps naming its node across splices and id       *)
(* rewrites.  0 stands for undefined.                                      *)
(***************************************************************************)
TreeNodeData(id, value, left, right, class, ref) ==
    [id |-> id, value |-> value, left |-> left, right |-> right,
     class |-> class, ref |-> ref]

Indices(s, P(_)) == {i \in DOMAIN s : P(s[i])}
Min(S) == CHOOSE x \in S : \A y \in S : x <= y
Max(S) == CHOOSE x \in S : \A y \in S : x >= y

\* Array.prototype.findIndex, 1-based, 0 when nothing matches
findIndex(s, P(_)) == IF Indices(s, P) = {} THEN 0 ELSE Min(Indices(s, P))

\* Array.prototype.splice(index, 1)
splice(s, i) == [j \in 1..(Len(s) - 1) |-> IF j < i THEN s[j] ELSE s[j + 1]]

\* Array.prototype.filter
filter(s, P(_)) == SelectSeq(s, P)

freshRef(t) == IF t = <<>> THEN 1 ELSE Max({t[i].ref : i \in DOMAIN t}) + 1

\* the object found by treeNodes.find(n => n.id === nodeId), as its ref
findNodeInTreeNodes(t, nodeId) ==
    LET i == findIndex(t, LAMBDA n : n.id = nodeId)
    IN IF i = 0 THEN 0 ELSE t[i].ref

indexOf(t, r) == findIndex(t, LAMBDA n : n.ref = r)
deref(t, r) == t[indexOf(t, r)]
assign(t, r, f, v) ==
    IF indexOf(t, r) = 0 THEN t
    ELSE [t EXCEPT ![indexOf(t, r)] = [@ EXCEPT ![f] = v]]

(***************************************************************************)
(* The body of a tree method works on a record S: the tree table t, the    *)
(* graph arrays, the keys logged so far, whether a TypeError was thrown    *)
(* (crash; everything after it is skipped) and the value returned by the   *)
(* last helper (ret).                                                      *)
(***************************************************************************)
GraphNode(id, class) == [id |-> id, class |-> class]
EdgeData(source, target, class) ==
    [source |-> source, target |-> target, class |-> class]

RECURSIVE treeEdges(_)
treeEdges(t) ==
    IF t = <<>> THEN <<>>
    ELSE LET n == Head(t) IN
         (IF n.left # nullId
             THEN <<EdgeData(n.id, n.left, "defaultEdge")>> ELSE <<>>)
         \o (IF n.right # nullId
             THEN <<EdgeData(n.id, n.right, "defaultEdge")>> ELSE <<>>)
         \o treeEdges(Tail(t))

\* layoutTree: `calculate` follows left and right from the root; on a path
\* that comes back to a node it recurses until the call stack overflows
RECURSIVE calculateOverflows(_, _, _)
calculateOverflows(t, nodeId, fuel) ==
    LET n == findNodeInTreeNodes(t, nodeId) IN
    IF n = 0 THEN FALSE
    ELSE IF fuel = 0 THEN TRUE
    ELSE \/ calculateOverflows(t, deref(t, n).left, fuel - 1)
         \/ calculateOverflows(t, deref(t, n).right, fuel - 1)

transferTreeToGraph(S) ==
    IF S.crash \/ S.nodes = <<>> THEN S
    ELSE LET t1 == IF S.t = <<>>
                   THEN <<TreeNodeData(nullNodeId, NULL, nullId, nullId,
                                       "nullNode", 1)>>
                   ELSE S.t
         IN IF calculateOverflows(t1, t1[1].id, Len(t1))
            THEN [S EXCEPT !.t = t1, !.nodes = <<S.nodes[1], S.nodes[2]>>,
                           !.edges = <<>>, !.crash = TRUE]
            ELSE
            [S EXCEPT
               !.t = t1,
               !.nodes = <<S.nodes[1], S.nodes[2]>>
                         \o [i \in DOMAIN t1 |-> GraphNode(t1[i].id, t1[i].class)],
               !.edges = <<EdgeData(initPointerId, t1[1].id, "defaultEdge")>>
                         \o treeEdges(t1)]

getChildIdForKey(node, key) ==
    IF NumLess(key, node.id) /\ node.left # nullId THEN node.left
    ELSE IF NumGreater(key, node.id) /\ node.right # nullId THEN node.right
    ELSE nullId

highlightSearchedNode(S, n) ==
    transferTreeToGraph([S EXCEPT !.t = assign(S.t, n, "class", "defaultNode")])

animateSearchFinding(S, n) ==
    transferTreeToGraph([S EXCEPT !.t = assign(S.t, n, "class", "highlightNode")])

pushNullChild(t, n, key, side) ==
    LET id == nullChildId(key, side)
        t1 == Append(t, TreeNodeData(id, NULL, nullId, nullId, "nullNode",
                                     freshRef(t)))
    IN assign(t1, n, IF side = "-left" THEN "left" ELSE "right", id)

\* `const x = await step; rest`: the rest of an async method runs on what the
\* awaited step left behind
then(S, F(_)) == F(S)

RECURSIVE addNodeWithAnimation(_, _, _, _, _)
addNodeWithAnimation(S, nodeId, key, parent, isLeft) ==
    LET n == findNodeInTreeNodes(S.t, nodeId) IN
    IF S.crash THEN S
    ELSE IF n = 0 THEN [S EXCEPT !.ret = nullId]
    ELSE IF deref(S.t, n).class = "nullNode" THEN
        then(assign(assign(assign(S.t, n, "id", key), n, "value", key),
                    n, "class", "defaultNode"), LAMBDA t1 :
        then(IF parent # 0
             THEN assign(t1, parent, IF isLeft THEN "left" ELSE "right", key)
             ELSE t1, LAMBDA t2 :
        transferTreeToGraph(
            [S EXCEPT !.t = pushNullChild(pushNullChild(t2, n, key, "-left"),
                                          n, key, "-right"),
                      !.ret = key])))
    ELSE
        then(transferTreeToGraph(S), LAMBDA S1 :
        LET node == deref(S1.t, n)
            childId == getChildIdForKey(node, key)
        IN IF node.id = key
           THEN [highlightSearchedNode(S1, n) EXCEPT !.ret = node.id]
           ELSE IF childId # nullId
           THEN then(addNodeWithAnimation(S1, childId, key, n,
                                          NumLess(key, node.id)), LAMBDA R :
                IF R.crash THEN R
                ELSE [R EXCEPT
                        !.t = assign(R.t, n,
                                     IF NumLess(key, node.id)
                                     THEN "left" ELSE "right", R.ret),
                        !.ret = node.id])
           ELSE [S1 EXCEPT !.ret = node.id])

\* fuel 0: the descent has run longer than any path of distinct nodes, so it
\* goes round a cycle and never returns
RECURSIVE searchNodeWithAnimation(_, _, _, _)
searchNodeWithAnimation(S, nodeId, key, fuel) ==
    LET n == findNodeInTreeNodes(S.t, nodeId) IN
    IF S.crash THEN S
    ELSE IF fuel = 0 THEN [S EXCEPT !.crash = TRUE]
    ELSE IF isNullNode(nodeId)
    THEN [S EXCEPT !.log = Append(@, LogKey("tree.searchNotFound")), !.ret = nullId]
    ELSE IF n = 0 THEN [S EXCEPT !.ret = nullId]
    ELSE LET node == deref(S.t, n)
             childId == getChildIdForKey(node, key)
         IN IF node.id = key
            THEN [highlightSearchedNode(S, n) EXCEPT
                    !.log = Append(@, LogKey("tree.searchFound")), !.ret = key]
            ELSE IF childId # nullId
            THEN [searchNodeWithAnimation(S, childId, key, fuel - 1) EXCEPT
                    !.ret = node.id]
            ELSE [S EXCEPT !.ret = node.id]

removeNullChildren(t, node) ==
    filter(t, LAMBDA x : x.id # nullChildId(node.id, "-left")
                         /\ x.id # nullChildId(node.id, "-right"))

\* parentNode.left or parentNode.right, chosen by the numeric parts of the ids
linkFromParent(t, parentId, nodeId, target) ==
    LET p == findNodeInTreeNodes(t, parentId) IN
    IF parentId = nullId \/ p = 0 THEN t
    ELSE IF extractNumericId(deref(t, p).id) > extractNumericId(nodeId)
         THEN assign(t, p, "left", target)
         ELSE assign(t, p, "right", target)

\* const i = treeNodes.indexOf(obj); if (i !== -1) treeNodes.splice(i, 1)
spliceNode(t, r) == IF indexOf(t, r) # 0 THEN splice(t, indexOf(t, r)) ELSE t

\* treeNodes.splice(treeNodes.findIndex(n => n.id === id), 1) when found
spliceId(t, id) ==
    LET i == findIndex(t, LAMBDA x : x.id = id)
    IN IF i # 0 THEN splice(t, i) ELSE t

replaceNodeWithChild(S, n, c, parentId, deleteSuccessor) ==
    IF S.crash THEN S ELSE
    then(IF deleteSuccessor THEN S.t
         ELSE assign(S.t, c, "class", "successorNode"), LAMBDA t0 :
    then(IF deleteSuccessor THEN S
         ELSE transferTreeToGraph([S EXCEPT !.t = t0]), LAMBDA S0 :
    LET node == deref(t0, n)
        child == deref(t0, c)
    IN then(removeNullChildren(t0, node), LAMBDA t1 :
       then(IF parentId # nullId
            THEN spliceNode(linkFromParent(t1, parentId, node.id, child.id), n)
            ELSE spliceNode(assign(assign(assign(assign(t1,
                                n, "id", child.id), n, "value", child.value),
                                n, "left", child.left), n, "right", child.right),
                            c), LAMBDA t2 :
       LET remainingNode == findNodeInTreeNodes(t2, child.id)
       IN IF remainingNode # 0 /\ ~deleteSuccessor
          THEN transferTreeToGraph(
                 [S0 EXCEPT !.t = assign(t2, remainingNode, "class",
                                         "defaultNode")])
          ELSE [S0 EXCEPT !.t = t2]))))

\* a successor search that stops at the right child itself
rightChildAsSuccessor(S, n, fuel) == [S EXCEPT !.ret = n]

\* returns the ref of the leftmost node in ret; leftNode.id on undefined throws
RECURSIVE findMostLeftNode(_, _, _)
findMostLeftNode(S, n, fuel) ==
    LET node == deref(S.t, n)
        leftNode == findNodeInTreeNodes(S.t, node.left)
    IN IF isNullNode(node.left) THEN [S EXCEPT !.ret = n]
       ELSE IF leftNode = 0 \/ fuel = 0 THEN [S EXCEPT !.crash = TRUE]
       ELSE findMostLeftNode(S, leftNode, fuel - 1)

\* a leaf removal that leaves the table as it is
leafStaysInTable(S, n, key, parentId, isLeft) == S

deleteLeafNodeWithAnimation(S, n, key, parentId, isLeft) ==
    LET id == IF isLeft /\ parentId # nullId THEN nullChildId(parentId, "-left")
              ELSE IF ~isLeft /\ parentId # nullId
                   THEN nullChildId(parentId, "-right")
              ELSE nullNodeId
    IN IF S.crash THEN S ELSE
       then(assign(spliceId(S.t, nullChildId(key, "-left")), n, "left", nullId),
            LAMBDA t1 :
       then(assign(spliceId(t1, nullChildId(key, "-right")), n, "right", nullId),
            LAMBDA t2 :
       then(assign(assign(assign(t2, n, "id", id), n, "value", NULL),
                   n, "class", "nullNode"), LAMBDA t3 :
       LET p == findNodeInTreeNodes(t3, parentId)
       IN [S EXCEPT !.t = IF parentId # nullId /\ p # 0
                          THEN assign(t3, p, IF isLeft THEN "left" ELSE "right",
                                      id)
                          ELSE t3])))

\* the promoted node keeps its temporary id
newIdStays(t, n, mostLeftNodeId, parentId) == t

\* the rewrite of `new-${id}` back to the successor's id after its removal
renameSuccessor(t, n, mostLeftNodeId, parentId) ==
    LET idToRewrite == newId(mostLeftNodeId)
    IN IF deref(t, n).id # idToRewrite THEN t ELSE
       then(assign(t, n, "id", mostLeftNodeId), LAMBDA t1 :
       LET nullRightNode ==
               findNodeInTreeNodes(t1, nullChildId(idToRewrite, "-right"))
       IN then(IF nullRightNode # 0
               THEN assign(t1, nullRightNode, "id",
                           nullChildId(mostLeftNodeId, "-right"))
               ELSE t1, LAMBDA t2 :
          then(IF deref(t2, n).right = nullChildId(idToRewrite, "-right")
               THEN assign(t2, n, "right", nullChildId(mostLeftNodeId, "-right"))
               ELSE t2, LAMBDA t3 :
          then(assign(t3, n, "class", "defaultNode"), LAMBDA t4 :
          LET p == findNodeInTreeNodes(t4, parentId)
          IN IF parentId = nullId \/ p = 0 THEN t4
             ELSE IF deref(t4, p).left = idToRewrite
                  THEN assign(t4, p, "left", mostLeftNodeId)
             ELSE IF deref(t4, p).right = idToRewrite
                  THEN assign(t4, p, "right", mostLeftNodeId)
             ELSE t4))))

RECURSIVE removeNodeWithAnimation(_, _, _, _, _, _, _)
removeNodeWithAnimation(S, nodeId, key, parentId, isLeft, deleteSuccessor, fuel) ==
    LET n == findNodeInTreeNodes(S.t, nodeId) IN
    IF S.crash THEN S
    ELSE IF fuel = 0 THEN [S EXCEPT !.crash = TRUE]
    ELSE IF nodeId = nullId \/ n = 0 THEN [S EXCEPT !.ret = nullId]
    ELSE IF deref(S.t, n).id = key THEN
        then(IF deleteSuccessor THEN S ELSE animateSearchFinding(S, n),
             LAMBDA S1 :
        LET node == deref(S1.t, n)
            leftChild == findNodeInTreeNodes(S1.t, node.left)
            rightChild == findNodeInTreeNodes(S1.t, node.right)
            lc == IF leftChild = 0 THEN "" ELSE deref(S1.t, leftChild).class
            rc == IF rightChild = 0 THEN "" ELSE deref(S1.t, rightChild).class
        IN then(
             IF leftChild = 0 THEN [S1 EXCEPT !.crash = TRUE]
             ELSE IF lc \in {"nullNode", "defaultNode"} /\ rightChild = 0
                  THEN [S1 EXCEPT !.crash = TRUE]
             ELSE IF lc = "nullNode" /\ rc = "nullNode"
                  THEN deleteLeafNodeWithAnimation(S1, n, key, parentId, isLeft)
             ELSE IF lc = "defaultNode" /\ rc = "nullNode"
                  THEN replaceNodeWithChild(S1, n, leftChild, parentId,
                                            deleteSuccessor)
             ELSE IF lc = "nullNode" /\ rc = "defaultNode"
                  THEN replaceNodeWithChild(S1, n, rightChild, parentId,
                                            deleteSuccessor)
             ELSE IF lc = "defaultNode" /\ rc = "defaultNode"
                  \* Case 3: the node has two children
                  THEN then(findMostLeftNode(S1, rightChild, Len(S1.t)),
                            LAMBDA M :
                       IF M.crash THEN M ELSE
                       LET mostLeftNode == M.ret
                           mostLeftNodeId == deref(M.t, mostLeftNode).id
                       IN then(transferTreeToGraph(
                                 [M EXCEPT !.t = assign(@, mostLeftNode, "class",
                                                        "successorNode")]),
                               LAMBDA M1 :
                          then(linkFromParent(
                                 assign(assign(assign(M1.t,
                                    n, "id", newId(mostLeftNodeId)),
                                    n, "value", deref(M1.t, mostLeftNode).value),
                                    n, "class", "successorNode"),
                                 parentId, newId(mostLeftNodeId),
                                 newId(mostLeftNodeId)), LAMBDA m2 :
                          then(removeNodeWithAnimation([M1 EXCEPT !.t = m2],
                                 deref(m2, n).right, deref(m2, mostLeftNode).id,
                                 deref(m2, n).id, FALSE, TRUE, fuel - 1),
                               LAMBDA R :
                          IF R.crash THEN R
                          ELSE [R EXCEPT !.t = renameSuccessor(R.t, n,
                                                 mostLeftNodeId, parentId)]))))
             ELSE S1,
             LAMBDA D :
             IF D.crash THEN D ELSE [transferTreeToGraph(D) EXCEPT !.ret = key]))
    ELSE
        LET node == deref(S.t, n)
        IN then(IF NumLess(key, node.value)
                THEN removeNodeWithAnimation(S, node.left, key, node.id, TRUE,
                                             deleteSuccessor, fuel - 1)
                ELSE removeNodeWithAnimation(S, node.right, key, node.id, FALSE,
                                             deleteSuccessor, fuel - 1),
                LAMBDA R : IF R.crash THEN R ELSE [R EXCEPT !.ret = node.id])

(***************************************************************************)
(* Traversals and height.  Visiting a node logs its value and flashes its  *)
(* class: defaultNode -> highlightNode -> defaultNode.                     *)
(***************************************************************************)
animateNodeInOrderTraversal(S, n) ==
    LET node == deref(S.t, n)
        S1 == [S EXCEPT !.log = Append(@, node.value)]
    IN IF node.class \in {"defaultNode", "highlightNode"}
       THEN transferTreeToGraph(
              [S1 EXCEPT !.t = assign(@, n, "class", "defaultNode")])
       ELSE S1

\* order is "pre", "in" or "post".  A path longer than the table revisits an
\* id, so the recursion never returns: fuel 0 reports that as crash.
RECURSIVE depthFirstWithAnimation(_, _, _, _)
depthFirstWithAnimation(S, nodeId, order, fuel) ==
    LET n == findNodeInTreeNodes(S.t, nodeId)
        node == deref(S.t, n)
    IN IF S.crash \/ ~isNodeValid(nodeId) \/ n = 0 THEN S
       ELSE IF fuel = 0 THEN [S EXCEPT !.crash = TRUE]
       ELSE
       then(IF order = "pre" THEN animateNodeInOrderTraversal(S, n) ELSE S,
            LAMBDA S1 :
       then(IF isNodeValid(node.left)
            THEN depthFirstWithAnimation(S1, node.left, order, fuel - 1)
            ELSE S1, LAMBDA S2 :
       then(IF order = "in" THEN animateNodeInOrderTraversal(S2, n) ELSE S2,
            LAMBDA S3 :
       then(IF isNodeValid(node.right)
            THEN depthFirstWithAnimation(S3, node.right, order, fuel - 1)
            ELSE S3, LAMBDA S4 :
       IF order = "post" THEN animateNodeInOrderTraversal(S4, n) ELSE S4))))

RECURSIVE levelOrderWithAnimation(_, _)
levelOrderWithAnimation(S, queue) ==
    LET currentId == Head(queue)
        n == findNodeInTreeNodes(S.t, currentId)
        node == deref(S.t, n)
        push == (IF isNodeValid(node.left) THEN <<node.left>> ELSE <<>>)
                \o (IF isNodeValid(node.right) THEN <<node.right>> ELSE <<>>)
    IN IF S.crash \/ queue = <<>> THEN S
       ELSE IF ~isNodeValid(currentId) \/ n = 0
            THEN levelOrderWithAnimation(S, Tail(queue))
       ELSE levelOrderWithAnimation(animateNodeInOrderTraversal(S, n),
                                    Tail(queue) \o push)

\* Math.max(leftHeight, rightHeight) + 1
currentHeight(leftHeight, rightHeight) == Max({leftHeight, rightHeight}) + 1

\* ret is the height returned; traverseChildWithHeight gives 0 for a child
\* that is not a valid node
RECURSIVE heightWithAnimation(_, _, _)
heightWithAnimation(S, nodeId, fuel) ==
    LET n == findNodeInTreeNodes(S.t, nodeId)
        node == deref(S.t, n)
    IN IF S.crash THEN S
       ELSE IF nodeId = nullNodeId THEN [S EXCEPT !.ret = 0]
       ELSE IF n = 0 \/ fuel = 0 THEN [S EXCEPT !.crash = TRUE]
       ELSE IF node.class = "nullNode" /\ Len(S.t) = 1 THEN [S EXCEPT !.ret = 0]
       ELSE
       then(IF node.class = "defaultNode"
            THEN transferTreeToGraph(
                   [S EXCEPT !.t = assign(@, n, "class", "highlightNode")])
            ELSE S, LAMBDA S1 :
       then(IF isNodeValid(node.left)
            THEN heightWithAnimation(S1, node.left, fuel - 1)
            ELSE [S1 EXCEPT !.ret = 0], LAMBDA S2 :
       then(IF isNodeValid(node.right)
            THEN heightWithAnimation(S2, node.right, fuel - 1)
            ELSE [S2 EXCEPT !.ret = 0], LAMBDA S3 :
       IF S3.crash THEN S3
       ELSE [(IF deref(S3.t, n).class = "highlightNode"
              THEN transferTreeToGraph(
                     [S3 EXCEPT !.t = assign(@, n, "class", "defaultNode")])
              ELSE S3)
             EXCEPT !.ret = currentHeight(S2.ret, S3.ret)])))

\* this.log(key, { value })
logsValue(S, key, value) ==
    IF S.crash THEN S
    ELSE [S EXCEPT !.log = Append(@, Str(<<key>>, FALSE, -1, <<value>>))]

(***************************************************************************)
(* Bodies of the public tree methods: what runs between                    *)
(* beforeAnimationStarts and afterAnimationEnds.                           *)
(***************************************************************************)
Begin == [variant |-> variant, isInit |-> isInit,
          animationInProcess |-> animationInProcess,
          t |-> treeNodes, nodes |-> nodes, edges |-> edges,
          activeNode |-> activeNode, lastNode |-> lastNode,
          firstNode |-> firstNode, addingInProcees |-> addingInProcees,
          arr |-> structureNodeArray, initNumber |-> initNumber,
          topIndex |-> topIndex, beginIndex |-> beginIndex,
          endIndex |-> endIndex,
          crash |-> FALSE, log |-> <<>>, ret |-> nullId,
          ending |-> "afterAnimationEnds"]

\* the method leaves by afterAnimationWithoutChange and returns
afterAnimationWithoutChange(S) ==
    IF S.crash THEN S ELSE [S EXCEPT !.ending = "afterAnimationWithoutChange"]

\* what the ending of a method does before it clears the flag: with
\* centering enabled afterAnimationEnds reports the centering status and
\* waits twice, afterAnimationWithoutChange reports and awaits nothing
closing(ending, centeringEnable) ==
    IF ending = "afterAnimationEnds" /\ centeringEnable
    THEN [status |-> <<"status.centering", "">>, waits |-> 2]
    ELSE [status |-> <<"">>, waits |-> 0]

\* rootNode.id and rootNode.class throw on an empty table
insertNodeBody(S, key) ==
    IF S.t = <<>> THEN [S EXCEPT !.crash = TRUE]
    ELSE addNodeWithAnimation(S, S.t[1].id, key, 0, FALSE)

deleteNodeBody(S, key) ==
    IF Len(S.t) <= 2
    THEN afterAnimationWithoutChange(
             [S EXCEPT !.log = Append(@, LogKey("tree.deleteEmpty"))])
    ELSE removeNodeWithAnimation(S, S.t[1].id, key, nullId, FALSE, FALSE,
                                 2 * Len(S.t) + 2)

\* a search that takes the descent of the insertion, writes included
searchThatInserts(S, key) == insertNodeBody(S, key)

searchNodeBody(S, key) ==
    IF S.t = <<>> THEN [S EXCEPT !.crash = TRUE]
    ELSE searchNodeWithAnimation(S, S.t[1].id, key, Len(S.t) + 1)

traversalBody(S, order) ==
    IF S.t = <<>> THEN [S EXCEPT !.crash = TRUE]
    ELSE IF S.t[1].class = "nullNode" THEN S
    ELSE IF order = "level"
         THEN IF depthFirstWithAnimation(S, S.t[1].id, "pre", Len(S.t) + 1).crash
              THEN [S EXCEPT !.crash = TRUE]
              ELSE levelOrderWithAnimation(S, <<S.t[1].id>>)
    ELSE depthFirstWithAnimation(S, S.t[1].id, order, Len(S.t) + 1)

showHeightBody(S) ==
    then(IF S.t = <<>> THEN [S EXCEPT !.crash = TRUE]
         ELSE heightWithAnimation(S, S.t[1].id, Len(S.t) + 1), LAMBDA H :
    logsValue(H, "tree.height", H.ret))

\* objects that stay in the table are renumbered by position between methods
renumber(t) == [i \in DOMAIN t |-> [t[i] EXCEPT !.ref = i]]

(***************************************************************************)
(* Lists.  nodes and edges are arrays of objects.  A node keeps its        *)
(* identity in ref while normalizeGraph rewrites its id; an edge holds the *)
(* ids of its end points by value.  Array positions are counted from 0 as  *)
(* in the code: at(s, i) is s[i].                                          *)
(***************************************************************************)
temp == -2         \* the id "temp" of the temporary pointer node
undefined == -3    \* an id that idMap.get() did not find

NodeData(id, value, ref) == [id |-> id, value |-> value, ref |-> ref]
Edge(source, target, class, ref) ==
    [source |-> source, target |-> target, class |-> class, ref |-> ref]
undefinedEdge == Edge(undefined, undefined, "undefined", 0)

at(s, i) == s[i + 1]
length(s) == Len(s)
\* the reference stored by `this.nodes[i]`: 0 (undefined) out of range
nodeAt(S, i) == IF i >= 0 /\ i < Len(S.nodes) THEN S.nodes[i + 1].ref ELSE 0
nodeOf(S, r) == S.nodes[findIndex(S.nodes, LAMBDA n : n.ref = r)]
isNode(S, r) == r # 0 /\ findIndex(S.nodes, LAMBDA n : n.ref = r) # 0

\* a new object: the smallest reference no live object and no field holds
freshNode(S) ==
    Min({r \in 1..(Len(S.nodes) + 3) :
            /\ \A i \in DOMAIN S.nodes : S.nodes[i].ref # r
            /\ r # S.lastNode /\ r # S.firstNode})
freshEdge(S) ==
    IF S.edges = <<>> THEN 1
    ELSE Max({S.edges[i].ref : i \in DOMAIN S.edges}) + 1

isCircleEdge(e) == e.class \in {"circleEdge", "singleNodeCircleEdge"}

findIndexOfCircleEdgeInArray(S) == findIndex(S.edges, isCircleEdge) - 1

\* CircularSinglyLinkedList overrides the lookup to skip the wrap edge
findIndexOfEdgeInArray(S, edge) ==
    findIndex(S.edges,
              LAMBDA e : /\ e.source = edge.source /\ e.target = edge.target
                         /\ (S.variant = "circular" => ~isCircleEdge(e))) - 1

\* sourceNode and targetNode are references, 0 for undefined, null for null;
\* reading .id of undefined throws, which ret = "TypeError" reports
findEdgeInArray(S, sourceNode, targetNode) ==
    LET ok(e) == S.variant = "circular" => ~isCircleEdge(e)
        sid == nodeOf(S, sourceNode).id
        tid == nodeOf(S, targetNode).id
        i == IF targetNode = null
             THEN findIndex(S.edges, LAMBDA e : e.source = sid /\ ok(e))
             ELSE IF sourceNode = null
             THEN findIndex(S.edges, LAMBDA e : e.target = tid /\ ok(e))
             ELSE findIndex(S.edges,
                            LAMBDA e : e.source = sid /\ e.target = tid /\ ok(e))
    IN IF sourceNode = null /\ targetNode = null THEN undefinedEdge
       ELSE IF (sourceNode # null /\ ~isNode(S, sourceNode))
               \/ (targetNode # null /\ ~isNode(S, targetNode))
            THEN [undefinedEdge EXCEPT !.class = "TypeError"]
       ELSE IF i = 0 THEN undefinedEdge ELSE S.edges[i]

findIndexOfNodeInArray(S, id) == findIndex(S.nodes, LAMBDA n : n.id = id) - 1

deleteEdgeFromArray(S, edgeIndex) ==
    IF edgeIndex > -1 THEN [S EXCEPT !.edges = splice(@, edgeIndex + 1)] ELSE S

\* BaseStructure.deleteNodeFromArray: the splice alone
BaseDeleteNodeFromArray(S, nodeIndex) ==
    IF nodeIndex > -1 THEN [S EXCEPT !.nodes = splice(@, nodeIndex + 1)] ELSE S

\* SinglyLinkedList.deleteNodeFromArray: keeps activeNode on its node
deleteNodeFromArray(S, nodeIndex) ==
    IF nodeIndex > -1
    THEN [S EXCEPT
            !.activeNode = IF @ = null THEN null
                           ELSE IF @ = nodeIndex THEN null
                           ELSE IF @ > nodeIndex THEN @ - 1
                           ELSE @,
            !.nodes = splice(@, nodeIndex + 1)]
    ELSE S

changeEdgeStyle(S, edgeRef, classString) ==
    LET i == findIndex(S.edges, LAMBDA x : x.ref = edgeRef)
        index == findIndexOfEdgeInArray(S, S.edges[i])
    IN IF S.crash \/ i = 0 \/ index = -1 THEN S
       ELSE [S EXCEPT !.edges[index + 1].class = classString]

\* SinglyLinkedList.normalizeGraph: ids become array positions, edges follow
\* through idMap (the last node that carried the old id wins)
renumberNodes(S) ==
    LET idMap(old) ==
            LET I == {i \in DOMAIN S.nodes : S.nodes[i].id = old}
            IN IF I = {} THEN undefined ELSE Max(I) - 1
    IN [S EXCEPT
          !.nodes = [i \in DOMAIN S.nodes |-> [S.nodes[i] EXCEPT !.id = i - 1]],
          !.edges = [i \in DOMAIN S.edges |->
                       [S.edges[i] EXCEPT !.source = idMap(S.edges[i].source),
                                          !.target = idMap(S.edges[i].target)]]]

\* addCircularEdge that pushes a wrap edge whatever the list already has
pushCircularEdgeAgain(S) ==
    IF S.crash \/ Len(S.nodes) < 2 THEN S
    ELSE [S EXCEPT !.edges = Append(@, Edge(S.nodes[Len(S.nodes)].id, S.nodes[2].id,
                                            "singleNodeCircleEdge", freshEdge(S)))]

addCircularEdge(S) ==
    LET last == nodeAt(S, Len(S.nodes) - 1)
        first == nodeAt(S, 1)
        circleEdgeIndex == findIndexOfCircleEdgeInArray(S)
    IN IF S.crash \/ Len(S.nodes) < 2 THEN S
       ELSE IF S.lastNode = null /\ S.firstNode = null
       THEN [S EXCEPT
               !.lastNode = last, !.firstNode = first,
               !.edges = Append(@, Edge(nodeOf(S, last).id, nodeOf(S, first).id,
                                        "singleNodeCircleEdge", freshEdge(S)))]
       ELSE IF ~S.addingInProcees
       THEN IF circleEdgeIndex = -1
            THEN [S EXCEPT !.lastNode = last, !.firstNode = first, !.crash = TRUE]
            ELSE [S EXCEPT
                    !.lastNode = last, !.firstNode = first,
                    !.edges[circleEdgeIndex + 1] =
                        [@ EXCEPT !.source = nodeOf(S, last).id,
                                  !.target = nodeOf(S, first).id,
                                  !.class = IF last = first
                                            THEN "singleNodeCircleEdge"
                                            ELSE "circleEdge"]]
       ELSE S

normalizeGraph(S) ==
    IF S.crash THEN S
    ELSE IF S.variant = "circular" THEN addCircularEdge(renumberNodes(S))
    ELSE renumberNodes(S)

\* pushes a new node object with the given id; ret is its reference
addNewNodeWithAnimation(S, id, normalize) ==
    LET r == freshNode(S)
        \* every inserted element is "x"; the temporary pointer has its own value
        value == IF id = temp THEN "Temp Pointer" ELSE "x"
        S1 == [S EXCEPT !.nodes = Append(@, NodeData(id, value, r)), !.ret = r]
    IN IF S.crash THEN S
       ELSE IF normalize THEN [normalizeGraph(S1) EXCEPT !.ret = r] ELSE S1

\* pushes the new edge twice; ret is the reference of the first
pushEdgeTwice(S, source, target, class) ==
    LET r == freshEdge(S)
    IN IF S.crash THEN S
       ELSE [S EXCEPT !.edges = @ \o <<Edge(source, target, class, r),
                                       Edge(source, target, class, r + 1)>>,
                      !.ret = r]

\* pushes one new edge object; ret is its reference
addNewEdgeWithAnimation(S, source, target, class) ==
    LET r == freshEdge(S)
        S1 == [S EXCEPT !.edges = Append(@, Edge(source, target, class, r)),
                        !.ret = r]
    IN IF S.crash THEN S
       ELSE IF findIndexOfEdgeInArray(S1, Edge(source, target, class, r)) = -1
       THEN [S1 EXCEPT !.crash = TRUE]
       ELSE S1

RECURSIVE deleteEdges(_, _)
deleteEdges(S, edgesToDelete) ==
    IF edgesToDelete = <<>> THEN S
    ELSE deleteEdges(
           deleteEdgeFromArray(S, findIndexOfEdgeInArray(S, Head(edgesToDelete))),
           Tail(edgesToDelete))

\* a removal that takes the first of nodesToDelete and leaves the others
deleteFirstOfNodes(S, nodesToDelete) ==
    IF nodesToDelete = <<>> THEN S
    ELSE deleteNodeFromArray(S,
             findIndexOfNodeInArray(S, nodeOf(S, Head(nodesToDelete)).id))

\* nodesToDelete holds references; the index is looked up by the current id
RECURSIVE deleteNodes(_, _)
deleteNodes(S, nodesToDelete) ==
    IF nodesToDelete = <<>> THEN S
    ELSE deleteNodes(
           deleteNodeFromArray(S,
               findIndexOfNodeInArray(S, nodeOf(S, Head(nodesToDelete)).id)),
           Tail(nodesToDelete))

\* an undefined element in either list throws before anything is removed
deleteNodesAndEdgesWithAnimation(S, edgesToDelete, nodesToDelete, normalize) ==
    IF S.crash THEN S
    ELSE IF (\E i \in DOMAIN edgesToDelete : edgesToDelete[i].ref = 0)
            \/ (\E i \in DOMAIN nodesToDelete : ~isNode(S, nodesToDelete[i]))
    THEN [S EXCEPT !.crash = TRUE]
    ELSE IF normalize
    THEN normalizeGraph(deleteNodes(deleteEdges(S, edgesToDelete), nodesToDelete))
    ELSE deleteNodes(deleteEdges(S, edgesToDelete), nodesToDelete)

\* ret is the reference of the temporary pointer node
addTempPtrNode(S, nodeToDelete) ==
    IF S.crash THEN S
    ELSE IF ~isNode(S, nodeToDelete) THEN [S EXCEPT !.crash = TRUE]
    ELSE then(addNewNodeWithAnimation(S, temp, FALSE), LAMBDA S1 :
         [addNewEdgeWithAnimation(S1, temp, nodeOf(S1, nodeToDelete).id,
                                  "defaultEdge") EXCEPT !.ret = S1.ret])

shiftingNodes(S) == normalizeGraph(S)

\* the splice of placeNewNodeToList without the normalizeGraph that follows
placeWithoutNormalizeGraph(S, index, incrementActiveNode) ==
    LET n == Len(S.nodes)
        rest == SubSeq(S.nodes, 1, n - 1)
        k == IF index > n - 1 THEN n - 1 ELSE index
    IN IF S.crash THEN S
       ELSE IF n = 0 THEN [S EXCEPT !.crash = TRUE]
       ELSE [S EXCEPT
               !.nodes = SubSeq(rest, 1, k) \o <<S.nodes[n]>>
                            \o SubSeq(rest, k + 1, n - 1),
               !.activeNode = IF @ # null /\ incrementActiveNode
                              THEN @ + 1 ELSE @]

placeNewNodeToList(S, index, incrementActiveNode) ==
    LET n == Len(S.nodes)
        lastObj == S.nodes[n]
        rest == SubSeq(S.nodes, 1, n - 1)
        \* Array.prototype.splice(index, 0, x) clamps index to the length
        k == IF index > n - 1 THEN n - 1 ELSE index
        placed == SubSeq(rest, 1, k) \o <<lastObj>> \o SubSeq(rest, k + 1, n - 1)
    IN IF S.crash THEN S
       ELSE IF n = 0 THEN [S EXCEPT !.crash = TRUE]
       ELSE normalizeGraph(
              [S EXCEPT !.nodes = placed,
                        !.activeNode = IF @ # null /\ incrementActiveNode
                                       THEN @ + 1 ELSE @])

\* the id read from a local variable that holds a node object
idOf(S, r) == IF isNode(S, r) THEN nodeOf(S, r).id ELSE undefined
throw(S) == [S EXCEPT !.crash = TRUE]
logs(S, key) == IF S.crash THEN S ELSE [S EXCEPT !.log = Append(@, LogKey(key))]

(***************************************************************************)
(* SinglyLinkedList: bodies of the public methods                          *)
(***************************************************************************)
SinglyInsertFirstNode(S) ==
    LET initNode == nodeAt(S, 0)
        first == nodeAt(S, 1)
    IN IF Len(S.nodes) = 1
       THEN then(addNewNodeWithAnimation(S, Len(S.nodes), TRUE), LAMBDA A1 :
            addNewEdgeWithAnimation(A1, idOf(A1, initNode), idOf(A1, A1.ret),
                                    "edgeToNewNode"))
       ELSE IF Len(S.nodes) = 0 THEN throw(S)
       ELSE
       then(addNewNodeWithAnimation(S, Len(S.nodes), TRUE), LAMBDA B1 :
       LET newNode == B1.ret IN
       then(shiftingNodes(B1), LAMBDA B2 :
       then(addNewEdgeWithAnimation(B2, idOf(B2, newNode), idOf(B2, first),
                                    "edgeFromNewNode"), LAMBDA B3 :
       then(deleteNodesAndEdgesWithAnimation(B3,
                <<findEdgeInArray(B3, initNode, first)>>, <<>>, TRUE),
            LAMBDA B4 :
       then(addNewEdgeWithAnimation(B4, idOf(B3, initNode), idOf(B3, newNode),
                                    "edgeToNewNode"), LAMBDA B5 :
       placeNewNodeToList(B5, 1, TRUE))))))

\* shared by deleteFirstNode and deleteAfterActiveNode: bypass nodeToDelete
\* with a new edge from fromNode, then remove it and the temporary pointer
bypassAndDelete(S, fromNode, nodeToDelete, nodeToConnectIndex, overClass, endClass) ==
    then(addTempPtrNode(S, nodeToDelete), LAMBDA S1 :
    LET ptrNode == nodeAt(S1, Len(S1.nodes) - 1)
        nodeToConnect == nodeAt(S1, nodeToConnectIndex)
    IN IF S1.crash THEN S1
       ELSE IF ~isNode(S1, fromNode) \/ ~isNode(S1, nodeToConnect) THEN throw(S1)
       ELSE
       then(deleteNodesAndEdgesWithAnimation(S1,
                <<findEdgeInArray(S1, null, nodeToDelete)>>, <<>>, FALSE),
            LAMBDA S2 :
       then(addNewEdgeWithAnimation(S2, idOf(S1, fromNode),
                                    idOf(S1, nodeToConnect), overClass),
            LAMBDA S3 :
       LET newEdge == S3.ret IN
       then(deleteNodesAndEdgesWithAnimation(S3,
                <<findEdgeInArray(S3, nodeToDelete, null),
                  findEdgeInArray(S3, ptrNode, null)>>,
                <<nodeToDelete, ptrNode>>, TRUE), LAMBDA S4 :
       changeEdgeStyle(shiftingNodes(S4), newEdge, endClass)))))

SinglyDeleteFirstNode(S) ==
    LET first == nodeAt(S, 1) IN
    IF Len(S.nodes) <= 1 THEN logs(S, "list.deleteFirstEmpty")
    ELSE IF Len(S.nodes) = 2
    THEN deleteNodesAndEdgesWithAnimation(S,
             <<findEdgeInArray(S, null, first)>>, <<first>>, TRUE)
    ELSE bypassAndDelete(S, nodeAt(S, 0), first, 2,
                         "edgeOverDeletingFirstNode", "edgeToNewNode")

SinglyActivateFirstNode(S) ==
    IF Len(S.nodes) = 1 THEN afterAnimationWithoutChange(logs(S, "list.firstEmpty"))
    ELSE [S EXCEPT !.activeNode = 1]

SinglyActivateNextNode(S) ==
    [S EXCEPT !.activeNode = IF @ + 1 >= Len(S.nodes) THEN null ELSE @ + 1]

SinglyInsertAfterActiveNode(S) ==
    LET active == nodeAt(S, S.activeNode)
        nodeAfterActiveNode == nodeAt(S, S.activeNode + 1)
    IN IF S.activeNode = Len(S.nodes) - 1
       THEN then(addNewNodeWithAnimation(S, Len(S.nodes), TRUE), LAMBDA A1 :
            IF isNode(S, active)
            THEN addNewEdgeWithAnimation(A1, idOf(A1, active), idOf(A1, A1.ret),
                                         "defaultEdge")
            ELSE throw(A1))
       ELSE IF ~isNode(S, nodeAfterActiveNode) THEN throw(S)
       ELSE
       then(addNewNodeWithAnimation(S, Len(S.nodes), TRUE), LAMBDA B1 :
       LET newNode == B1.ret IN
       then(shiftingNodes(B1), LAMBDA B2 :
       then(addNewEdgeWithAnimation(B2, idOf(B2, newNode),
                                    idOf(B2, nodeAfterActiveNode),
                                    "edgeFromNewNode"), LAMBDA B3 :
       then(deleteNodesAndEdgesWithAnimation(B3,
                <<findEdgeInArray(B3, active, nodeAfterActiveNode)>>,
                <<>>, TRUE), LAMBDA B4 :
       then(addNewEdgeWithAnimation(B4, idOf(B4, active), idOf(B4, newNode),
                                    "edgeToNewNode"), LAMBDA B5 :
       placeNewNodeToList(B5, B5.activeNode + 1, FALSE))))))

SinglyDeleteAfterActiveNode(S) ==
    LET active == nodeAt(S, S.activeNode)
        nodeToDelete == nodeAt(S, S.activeNode + 1)
    IN IF S.activeNode = Len(S.nodes) - 1
       THEN afterAnimationWithoutChange(logs(S, "list.deleteAfterEmpty"))
       ELSE IF S.activeNode = Len(S.nodes) - 2
       THEN deleteNodesAndEdgesWithAnimation(S,
                <<findEdgeInArray(S, null, nodeToDelete)>>, <<nodeToDelete>>, TRUE)
       ELSE bypassAndDelete(S, active, nodeToDelete, S.activeNode + 2,
                            "edgeOverDeletingAfterNode", "defaultEdge")

(***************************************************************************)
(* CircularSinglyLinkedList: what the overrides add around super           *)
(***************************************************************************)
\* after `await super.insert...`: addingInProcees = false; addCircularEdge()
afterSuperInsert(S1) ==
    IF S1.crash THEN S1
    ELSE addCircularEdge([S1 EXCEPT !.addingInProcees = FALSE])

CircularInsertFirstNode(S) == afterSuperInsert(SinglyInsertFirstNode(S))

\* deleteFirstNode with nothing after `await super.deleteFirstNode()`
superDeleteFirstNodeOnly(S1) == S1

\* after `await super.deleteFirstNode()`: an empty list drops the wrap edge
afterSuperDeleteFirstNode(S1) ==
    IF S1.crash THEN S1
    ELSE IF Len(S1.nodes) = 1
    THEN [S1 EXCEPT !.edges = <<>>, !.lastNode = null, !.firstNode = null]
    ELSE S1

CircularDeleteFirstNode(S) == afterSuperDeleteFirstNode(SinglyDeleteFirstNode(S))

CircularInsertAfterActiveNode(S) ==
    afterSuperInsert(SinglyInsertAfterActiveNode(S))

\* the branch is taken when the method is called, before its first await
viaDeleteFirstNode(S) == S.activeNode = Len(S.nodes) - 1 /\ S.activeNode # 1

\* deleteAfterActiveNode that always takes the deletion of the parent class
alwaysSuperDelete(S, branch) == SinglyDeleteAfterActiveNode(S)

CircularDeleteAfterActiveNode(S, branch) ==
    IF branch = "deleteFirstNode" THEN CircularDeleteFirstNode(S)
    ELSE SinglyDeleteAfterActiveNode(S)

\* the step of the singly linked list, which stops at the end
nextWithoutWrap(S) == SinglyActivateNextNode(S)

CircularActivateNextNode(S) ==
    [S EXCEPT !.activeNode = IF @ + 1 >= Len(S.nodes) THEN 1 ELSE @ + 1]

(***************************************************************************)
(* DoublyLinkedList                                                        *)
(***************************************************************************)
\* pushes newEdge alone
addEdgeWithoutReverse(S, source, target) ==
    addNewEdgeWithAnimation(S, source, target, "roundCornerEdge")

\* pushes newEdge and then returnReverseEdge(newEdge)
addEdgeAndReverse(S, source, target) ==
    addNewEdgeWithAnimation(
        addNewEdgeWithAnimation(S, source, target, "roundCornerEdge"),
        target, source, "roundCornerEdge")

addFirstNodeToTheList(S) ==
    then(addNewNodeWithAnimation(S, Len(S.nodes), TRUE), LAMBDA S1 :
    then(addNewEdgeWithAnimation(S1, idOf(S1, nodeAt(S, 0)), idOf(S1, S1.ret),
                                 "edgeFromInitPointer"), LAMBDA S2 :
    addNewEdgeWithAnimation(S2, idOf(S1, nodeAt(S, 1)), idOf(S1, S1.ret),
                            "edgeFromInitPointer")))

\* insertFirstNode, insertLastNode, and the end cases of insertAfterActiveNode
\* and insertBeforeActiveNode: the new node goes between the sentinel init
\* and its neighbour
insertAtEnd(S, init, neighbour, index, incrementActiveNode) ==
    IF ~isNode(S, neighbour) THEN throw(S)
    ELSE
    then(addNewNodeWithAnimation(S, Len(S.nodes), TRUE), LAMBDA S1 :
    LET newNode == S1.ret IN
    then(shiftingNodes(S1), LAMBDA S2 :
    then(addEdgeAndReverse(S2, idOf(S2, newNode), idOf(S2, neighbour)),
         LAMBDA S3 :
    then(deleteNodesAndEdgesWithAnimation(S3,
             <<findEdgeInArray(S3, init, neighbour)>>, <<>>, TRUE), LAMBDA S4 :
    then(addNewEdgeWithAnimation(S4, idOf(S3, init), idOf(S3, newNode),
                                 "edgeFromInitPointer"), LAMBDA S5 :
    placeNewNodeToList(S5, index, incrementActiveNode))))))

\* the middle cases: the new node goes between the active node a and its
\* neighbour b; aFirst tells which of the two edges from the new node is
\* pushed first
insertBetween(S, a, b, aFirst, index, incrementActiveNode) ==
    LET x == IF aFirst THEN a ELSE b
        y == IF aFirst THEN b ELSE a
    IN IF ~isNode(S, a) \/ ~isNode(S, b) THEN throw(S)
       ELSE
       then(addNewNodeWithAnimation(S, Len(S.nodes), TRUE), LAMBDA S1 :
       then(shiftingNodes(shiftingNodes(S1)), LAMBDA S2 :
       LET n == idOf(S2, S1.ret) IN
       then(addNewEdgeWithAnimation(S2, n, idOf(S2, x), "roundCornerEdge"),
            LAMBDA S3 :
       then(addNewEdgeWithAnimation(S3, n, idOf(S2, y), "roundCornerEdge"),
            LAMBDA S4 :
       then(deleteNodesAndEdgesWithAnimation(S4,
                <<findEdgeInArray(S4, a, b)>>, <<>>, TRUE), LAMBDA S5 :
       then(addNewEdgeWithAnimation(S5, idOf(S2, a), n, "roundCornerEdge"),
            LAMBDA S6 :
       then(deleteNodesAndEdgesWithAnimation(S6,
                <<findEdgeInArray(S6, b, a)>>, <<>>, TRUE), LAMBDA S7 :
       then(addNewEdgeWithAnimation(S7, idOf(S2, b), n, "roundCornerEdge"),
            LAMBDA S8 :
       placeNewNodeToList(S8, index, incrementActiveNode)))))))))

DoublyInsertFirstNode(S) ==
    IF Len(S.nodes) = 2 THEN addFirstNodeToTheList(S)
    ELSE insertAtEnd(S, nodeAt(S, 0), nodeAt(S, 2), 2, TRUE)

DoublyInsertLastNode(S) ==
    IF Len(S.nodes) = 2 THEN addFirstNodeToTheList(S)
    ELSE insertAtEnd(S, nodeAt(S, 1), nodeAt(S, Len(S.nodes) - 1),
                     Len(S.nodes), FALSE)

DoublyInsertAfterActiveNode(S) ==
    IF S.activeNode = Len(S.nodes) - 1
    THEN insertAtEnd(S, nodeAt(S, 1), nodeAt(S, S.activeNode),
                     S.activeNode + 1, FALSE)
    ELSE insertBetween(S, nodeAt(S, S.activeNode), nodeAt(S, S.activeNode + 1),
                       FALSE, S.activeNode + 1, FALSE)

DoublyInsertBeforeActiveNode(S) ==
    IF S.activeNode = 2
    THEN insertAtEnd(S, nodeAt(S, 0), nodeAt(S, S.activeNode), S.activeNode, TRUE)
    ELSE insertBetween(S, nodeAt(S, S.activeNode), nodeAt(S, S.activeNode - 1),
                       TRUE, S.activeNode, TRUE)

\* deleteFirstNode and deleteLastNode with more than one data node
deleteAtEnd(S, init, nodeToDelete, nodeToConnectIndex, underClass) ==
    then(addTempPtrNode(S, nodeToDelete), LAMBDA S1 :
    LET ptrNode == nodeAt(S1, Len(S1.nodes) - 1)
        nodeToConnect == nodeAt(S1, nodeToConnectIndex)
    IN IF S1.crash THEN S1
       ELSE IF ~isNode(S1, nodeToConnect) THEN throw(S1)
       ELSE
       then(deleteNodesAndEdgesWithAnimation(S1,
                <<findEdgeInArray(S1, init, nodeToDelete)>>, <<>>, FALSE),
            LAMBDA S2 :
       then(addNewEdgeWithAnimation(S2, idOf(S1, init), idOf(S1, nodeToConnect),
                                    underClass), LAMBDA S3 :
       LET newEdge == S3.ret IN
       then(deleteNodesAndEdgesWithAnimation(S3,
                <<findEdgeInArray(S3, nodeToDelete, null),
                  findEdgeInArray(S3, ptrNode, null),
                  findEdgeInArray(S3, nodeToConnect, nodeToDelete)>>,
                <<nodeToDelete, ptrNode>>, TRUE), LAMBDA S4 :
       changeEdgeStyle(shiftingNodes(S4), newEdge, "edgeFromInitPointer")))))

\* deleteAfterActiveNode / deleteBeforeActiveNode when nodeToDelete is the
\* last / first data node: the sentinel init is re-pointed to the active node
deleteNextToEnd(S, init, active, nodeToDelete, underClass) ==
    then(addTempPtrNode(S, nodeToDelete), LAMBDA S1 :
    IF S1.crash THEN S1
    ELSE
    then(deleteNodesAndEdgesWithAnimation(S1,
             <<findEdgeInArray(S1, init, null)>>, <<>>, FALSE), LAMBDA S2 :
    then(addNewEdgeWithAnimation(S2, idOf(S2, init), idOf(S2, active),
                                 underClass), LAMBDA S3 :
    LET newEdgeFromInit == S3.ret
        ptrNode == nodeAt(S3, Len(S3.nodes) - 1)
    IN then(deleteNodesAndEdgesWithAnimation(S3,
                <<findEdgeInArray(S3, active, nodeToDelete),
                  findEdgeInArray(S3, nodeToDelete, active),
                  findEdgeInArray(S3, ptrNode, null)>>,
                <<nodeToDelete, ptrNode>>, TRUE), LAMBDA S4 :
       changeEdgeStyle(shiftingNodes(shiftingNodes(S4)), newEdgeFromInit,
                       "edgeFromInitPointer")))))

\* the middle cases: active and nodeToConnect get linked around nodeToDelete
deleteBetween(S, active, nodeToDelete, nodeToConnectIndex, class1, class2) ==
    then(addTempPtrNode(S, nodeToDelete), LAMBDA S1 :
    LET ptrNode == nodeAt(S1, Len(S1.nodes) - 1)
        nodeToConnect == nodeAt(S1, nodeToConnectIndex)
    IN IF S1.crash THEN S1
       ELSE IF ~isNode(S1, nodeToConnect) THEN throw(S1)
       ELSE
       then(deleteNodesAndEdgesWithAnimation(S1,
                <<findEdgeInArray(S1, active, nodeToDelete)>>, <<>>, FALSE),
            LAMBDA S2 :
       then(addNewEdgeWithAnimation(S2, idOf(S2, active),
                                    idOf(S2, nodeToConnect), class1),
            LAMBDA S3 :
       then(deleteNodesAndEdgesWithAnimation(S3,
                <<findEdgeInArray(S3, nodeToConnect, nodeToDelete)>>, <<>>,
                FALSE), LAMBDA S4 :
       then(addNewEdgeWithAnimation(S4, idOf(S4, nodeToConnect),
                                    idOf(S4, active), class2), LAMBDA S5 :
       then(deleteNodesAndEdgesWithAnimation(S5,
                <<findEdgeInArray(S5, nodeToDelete, nodeToConnect),
                  findEdgeInArray(S5, nodeToDelete, active),
                  findEdgeInArray(S5, ptrNode, null)>>,
                <<nodeToDelete, ptrNode>>, TRUE), LAMBDA S6 :
       changeEdgeStyle(
           changeEdgeStyle(shiftingNodes(shiftingNodes(S6)), S3.ret,
                           "roundCornerEdge"),
           S5.ret, "roundCornerEdge")))))))

DoublyDeleteFirstNode(S) ==
    LET first == nodeAt(S, 2) IN
    IF Len(S.nodes) <= 2 THEN logs(S, "list.deleteFirstEmpty")
    ELSE IF Len(S.nodes) = 3
    THEN deleteNodesAndEdgesWithAnimation(S,
             <<findEdgeInArray(S, nodeAt(S, 0), first),
               findEdgeInArray(S, nodeAt(S, 1), first)>>, <<first>>, TRUE)
    ELSE deleteAtEnd(S, nodeAt(S, 0), first, 3, "edgeUnderNodeFromInit1")

DoublyDeleteLastNode(S) ==
    LET last == nodeAt(S, Len(S.nodes) - 1) IN
    IF Len(S.nodes) <= 2 THEN logs(S, "list.deleteLastEmpty")
    ELSE IF Len(S.nodes) = 3
    THEN deleteNodesAndEdgesWithAnimation(S,
             <<findEdgeInArray(S, nodeAt(S, 0), last),
               findEdgeInArray(S, nodeAt(S, 1), last)>>, <<last>>, TRUE)
    ELSE deleteAtEnd(S, nodeAt(S, 1), last, Len(S.nodes) - 2,
                     "edgeUnderNodeFromInit2")

DoublyDeleteAfterActiveNode(S) ==
    LET active == nodeAt(S, S.activeNode)
        nodeToDelete == nodeAt(S, S.activeNode + 1)
    IN IF S.activeNode = Len(S.nodes) - 1
       THEN afterAnimationWithoutChange(logs(S, "list.deleteAfterEmpty"))
       ELSE IF S.activeNode = Len(S.nodes) - 2
       THEN deleteNextToEnd(S, nodeAt(S, 1), active, nodeToDelete,
                            "edgeUnderNodeFromInit2")
       ELSE deleteBetween(S, active, nodeToDelete, S.activeNode + 2,
                          "edgeUnderNodeFromNodes", "edgeOverNodeFromNodes")

DoublyDeleteBeforeActiveNode(S) ==
    LET active == nodeAt(S, S.activeNode)
        nodeToDelete == nodeAt(S, S.activeNode - 1)
    IN IF S.activeNode = 2 THEN afterAnimationWithoutChange(logs(S, "list.deleteBeforeEmpty"))
       ELSE IF S.activeNode = 3
       THEN deleteNextToEnd(S, nodeAt(S, 0), active, nodeToDelete,
                            "edgeUnderNodeFromInit1")
       ELSE deleteBetween(S, active, nodeToDelete, S.activeNode - 2,
                          "edgeOverNodeFromNodes", "edgeUnderNodeFromNodes")

DoublyActivateFirstNode(S) ==
    IF Len(S.nodes) = 2 THEN afterAnimationWithoutChange(logs(S, "list.firstEmpty"))
    ELSE [S EXCEPT !.activeNode = 2]

\* activatePreviousNode that stops one index later, on the tail sentinel
activatePreviousNodeOntoSentinel(S) ==
    [S EXCEPT !.activeNode = IF @ - 1 <= 0 THEN null ELSE @ - 1]

activatePreviousNodeBody(S) ==
    [S EXCEPT !.activeNode = IF @ - 1 <= 1 THEN null ELSE @ - 1]

activateLastNodeBody(S) ==
    IF Len(S.nodes) = 2 THEN afterAnimationWithoutChange(logs(S, "list.lastEmpty"))
    ELSE [S EXCEPT !.activeNode = Len(S.nodes) - 1]

\* the methods that only report; the first data node sits at index `first`
getFirstNodeValueBody(S, first) ==
    IF Len(S.nodes) > first THEN logs(S, "list.getFirstValue")
    ELSE logs(S, "list.getFirstError")

getLastNodeValueBody(S) ==
    IF Len(S.nodes) > 2 THEN logs(S, "list.getLastValue")
    ELSE logs(S, "list.getLastError")

getActiveNodeValueBody(S) ==
    IF S.activeNode = null THEN logs(S, "list.getActiveError")
    ELSE IF ~isNode(S, nodeAt(S, S.activeNode)) THEN throw(S)
    ELSE logs(S, "list.getActiveValue")

setActiveNodeValueBody(S) ==
    IF ~isNode(S, nodeAt(S, S.activeNode)) THEN throw(S)
    ELSE logs([S EXCEPT !.nodes[S.activeNode + 1].value = "x"],
              "list.setActiveValue")

isListActiveBody(S) ==
    IF S.activeNode = null THEN logs(S, "list.notActive")
    ELSE logs(S, "list.active")

(***************************************************************************)
(* ArrayStructure, StackClass, QueueClass.  arr holds the value of every   *)
(* slot of structureNodeArray, "" for a free slot.                         *)
(***************************************************************************)
slot(S, i) == i # null /\ i >= 0 /\ i < Len(S.arr)

StackInsertToArray(S, element) ==
    LET top == IF S.topIndex = null THEN 0 ELSE S.topIndex + 1 IN
    IF slot(S, top)
    THEN [S EXCEPT !.topIndex = top, !.arr[top + 1] = element]
    ELSE [S EXCEPT !.topIndex = top, !.crash = TRUE]

\* `null >= n` compares 0 with n
\* addElement without its test for a full stack
addWithoutFullTest(S, element) == StackInsertToArray(S, element)

StackAddElement(S, element) ==
    IF (IF S.topIndex = null THEN 0 ELSE S.topIndex) >= S.initNumber - 1
    THEN afterAnimationWithoutChange(logs(S, "stack.addFull"))
    ELSE StackInsertToArray(S, element)

StackRemoveElement(S) ==
    IF S.topIndex = null THEN afterAnimationWithoutChange(logs(S, "stack.removeEmpty"))
    ELSE IF ~slot(S, S.topIndex) THEN throw(S)
    ELSE [S EXCEPT !.arr[S.topIndex + 1] = "",
                   !.topIndex = IF @ = 0 THEN null ELSE @ - 1]

StackIsEmpty(S) ==
    IF S.topIndex = null THEN logs(S, "stack.empty") ELSE logs(S, "stack.notEmpty")

StackIsFull(S) ==
    IF S.topIndex = S.initNumber - 1 THEN logs(S, "stack.full")
    ELSE logs(S, "stack.notFull")

\* of tempNodeArray, nodes holds the pointer nodes that an operation spawns
addTempNodeWithAnimation(S, id, class) ==
    IF S.crash THEN S ELSE [S EXCEPT !.nodes = Append(@, GraphNode(id, class))]

\* a removal that leaves the pointer node where it is
pointerStays(S, id) == S

\* tempNodeArray.find(...)! of a node that is not there throws on its use
deleteTempNodeWithAnimation(S, id) ==
    LET i == findIndex(S.nodes, LAMBDA n : n.id = id)
    IN IF S.crash THEN S
       ELSE IF i = 0 THEN throw(S)
       ELSE [S EXCEPT !.nodes = splice(@, i)]

StackForemostElement(S) ==
    IF S.topIndex = null THEN afterAnimationWithoutChange(logs(S, "stack.topError"))
    ELSE IF ~slot(S, S.topIndex) THEN afterAnimationWithoutChange(S)
    ELSE then(addTempNodeWithAnimation(S, "top", "topNode"), LAMBDA S1 :
         then(logsValue(S1, "stack.top", S1.arr[S1.topIndex + 1]), LAMBDA S2 :
         deleteTempNodeWithAnimation(S2, "top")))

\* QueueClass.setAndUpdateGraph reads both pointer slots
updateBeginAndEndPtrs(S) ==
    IF S.crash THEN S
    ELSE IF slot(S, S.beginIndex) /\ slot(S, S.endIndex) THEN S
    ELSE throw(S)

\* the full test without its second disjunct
fullWithoutWrapCase(b, e, n) == b - 1 = e

QueueIsFullNow(b, e, n) == (b - 1 = e) \/ (b = 0 /\ e = n - 1)

\* insertToArray that stores the value and leaves endIndex where it is
insertWithoutAdvance(S, element) ==
    IF ~slot(S, S.endIndex) THEN throw(S)
    ELSE updateBeginAndEndPtrs([S EXCEPT !.arr[S.endIndex + 1] = element])

QueueInsertToArray(S, element) ==
    IF ~slot(S, S.endIndex) THEN throw(S)
    ELSE LET S1 == updateBeginAndEndPtrs([S EXCEPT !.arr[S.endIndex + 1] = element])
         IN IF S1.crash THEN S1 ELSE [S1 EXCEPT !.endIndex = @ + 1]

\* pushes the edge and redraws
addEdgeWithAnimation(S, edge) ==
    IF S.crash THEN S
    ELSE updateBeginAndEndPtrs([S EXCEPT !.edges = Append(@, edge)])

\* a removal that leaves the edge list as it is
edgeStaysAfterWrap(S) == S

\* drops the last edge of the list; reading an edge that is not there throws
removeEdgeWithAnimation(S) ==
    IF S.crash THEN S
    ELSE IF S.edges = <<>> THEN throw(S)
    ELSE [S EXCEPT !.edges = SubSeq(@, 1, Len(@) - 1)]

QueueAddElement(S, element, isFull) ==
    LET S1 == QueueInsertToArray(S, element)
        S2 == IF S1.crash \/ S1.endIndex # S1.initNumber THEN S1
              ELSE IF ~slot(S1, S1.initNumber - 1) THEN throw(S1)
              ELSE addEdgeWithAnimation([S1 EXCEPT !.endIndex = 0],
                       EdgeData(S1.initNumber - 1, 0, "circleEdge"))
    IN IF isFull THEN afterAnimationWithoutChange(logs(S, "queue.addFull"))
       ELSE updateBeginAndEndPtrs(S2)

QueueRemoveElement(S) ==
    LET S1 == updateBeginAndEndPtrs([S EXCEPT !.arr[S.beginIndex + 1] = ""])
        S2 == IF S1.crash THEN S1 ELSE [S1 EXCEPT !.beginIndex = @ + 1]
        S3 == IF S2.crash \/ S2.beginIndex # S2.initNumber THEN S2
              ELSE removeEdgeWithAnimation(
                       updateBeginAndEndPtrs([S2 EXCEPT !.beginIndex = 0]))
    IN IF S.beginIndex = S.endIndex THEN afterAnimationWithoutChange(logs(S, "queue.removeEmpty"))
       ELSE IF ~slot(S, S.beginIndex) THEN throw(S)
       ELSE updateBeginAndEndPtrs(S3)

QueueIsEmpty(S) ==
    IF S.beginIndex = S.endIndex THEN logs(S, "queue.empty")
    ELSE logs(S, "queue.notEmpty")

QueueIsFull(S) ==
    IF QueueIsFullNow(S.beginIndex, S.endIndex, S.initNumber)
    THEN logs(S, "queue.full") ELSE logs(S, "queue.notFull")

\* foremostElement that reads the first slot of the array, not the one at beginIndex
frontAtSlotZero(S) ==
    IF S.beginIndex = S.endIndex THEN logs(S, "queue.frontError")
    ELSE updateBeginAndEndPtrs(logsValue(S, "queue.front", S.arr[1]))

QueueForemostElement(S) ==
    IF S.beginIndex = S.endIndex THEN afterAnimationWithoutChange(logs(S, "queue.frontError"))
    ELSE IF ~slot(S, S.beginIndex) THEN afterAnimationWithoutChange(S)
    ELSE then(addTempNodeWithAnimation(S, "front", "frontPtr"), LAMBDA S1 :
         then(updateBeginAndEndPtrs(
                 logsValue(S1, "queue.front", S1.arr[S1.beginIndex + 1])),
              LAMBDA S2 :
         updateBeginAndEndPtrs(deleteTempNodeWithAnimation(S2, "front"))))

(***************************************************************************)
(* Lifecycle methods.  They are synchronous: each runs to its end in one   *)
(* step.                                                                   *)
(***************************************************************************)
IsList(v) == v \in {"singly", "circular", "doubly"}
IsArray(v) == v \in {"stack", "queue"}

\* the resetStructure of the instance's class, with every super call
resetStructureS(S) ==
    IF S.animationInProcess THEN S
    ELSE [S EXCEPT
            !.isInit = FALSE, !.nodes = <<>>, !.edges = <<>>,
            !.activeNode = IF IsList(S.variant) THEN null ELSE @,
            !.lastNode = IF S.variant = "circular" THEN null ELSE @,
            !.firstNode = IF S.variant = "circular" THEN null ELSE @,
            !.addingInProcees = IF S.variant = "circular" THEN FALSE ELSE @,
            !.t = IF S.variant = "tree" THEN <<>> ELSE @,
            !.arr = IF IsArray(S.variant) THEN <<>> ELSE @,
            !.topIndex = IF S.variant = "stack" THEN null ELSE @,
            !.beginIndex = IF S.variant = "queue" THEN 0 ELSE @,
            !.endIndex = IF S.variant = "queue" THEN 0 ELSE @]

pushNode(S, id, value) ==
    [S EXCEPT !.nodes = Append(@, NodeData(id, value, freshNode(S)))]

RECURSIVE pushSlots(_, _)
pushSlots(a, n) == IF n <= 0 THEN a ELSE pushSlots(Append(a, ""), n - 1)

\* the initStructure of the instance's class
\* initStructure that takes the capacity although the structure is initialized
initWithoutIsInitTest(S, init) ==
    IF IsArray(S.variant) THEN [S EXCEPT !.initNumber = init, !.isInit = TRUE]
    ELSE [S EXCEPT !.nodes = <<>>, !.edges = <<>>, !.isInit = TRUE]

initStructureS(S, init) ==
    IF S.isInit THEN S
    ELSE IF S.variant \in {"singly", "circular"}
    THEN [pushNode(S, 0, "Init Pointer") EXCEPT !.isInit = TRUE]
    ELSE IF S.variant = "doubly"
    THEN LET S1 == pushNode(S, Len(S.nodes), "Init Pointer 1")
         IN [pushNode(S1, Len(S1.nodes), "Init Pointer 2") EXCEPT !.isInit = TRUE]
    ELSE IF S.variant = "tree"
    THEN [transferTreeToGraph(
            [S EXCEPT !.nodes = @ \o <<GraphNode(initPointerId, "pointer"),
                                       GraphNode(nodeCursorId, "nodeCursor")>>])
          EXCEPT !.isInit = TRUE]
    ELSE then([S EXCEPT !.initNumber = init, !.arr = pushSlots(@, init)],
              LAMBDA S1 :
         then(IF S.variant = "queue" THEN updateBeginAndEndPtrs(S1) ELSE S1,
              LAMBDA S2 :
         IF S2.crash THEN S2 ELSE [S2 EXCEPT !.isInit = TRUE]))

\* ArrayStructure.randomStructure: the loop that fills numOfElements slots
RECURSIVE insertRandomElements(_, _)
insertRandomElements(S, n) ==
    IF n = 0 \/ S.crash THEN S
    ELSE insertRandomElements(IF S.variant = "stack"
                              THEN StackInsertToArray(S, "x")
                              ELSE QueueInsertToArray(S, "x"), n - 1)

\* reset and initStructure(initNum) return at once where their guards say so
ArrayRandomStructure(S, initNum, numOfElements) ==
    then(insertRandomElements(initStructureS(resetStructureS(S), initNum),
                              numOfElements), LAMBDA S1 :
    IF S1.variant = "queue" THEN updateBeginAndEndPtrs(S1) ELSE S1)

\* SinglyLinkedList.randomStructure: the loop that pushes numOfElements nodes
RECURSIVE pushRandomNodes(_, _)
pushRandomNodes(S, n) ==
    IF n = 0 \/ S.crash THEN S
    ELSE LET S1 == pushNode(S, Len(S.nodes), "x")
             previousNode == nodeAt(S1, Len(S1.nodes) - 2)
         IN IF ~isNode(S1, previousNode) THEN throw(S1)
            ELSE pushRandomNodes(
                   [S1 EXCEPT !.edges = Append(@,
                       Edge(idOf(S1, previousNode), Len(S.nodes),
                            "edgeToNewNode", freshEdge(S1)))],
                   n - 1)

SinglyRandomStructure(S, numOfElements) ==
    normalizeGraph(pushRandomNodes(initStructureS(resetStructureS(S), 0),
                                   numOfElements))

CircularRandomStructure(S, numOfElements) ==
    then(SinglyRandomStructure(S, numOfElements), LAMBDA S1 :
    LET first == nodeAt(S1, 1)
        last == nodeAt(S1, Len(S1.nodes) - 1)
        class == IF first = last THEN "singleNodeCircleEdge" ELSE "circleEdge"
    IN IF S1.crash \/ Len(S1.nodes) <= 2 THEN S1
       ELSE then([S1 EXCEPT !.firstNode = first, !.lastNode = last], LAMBDA S2 :
            LET i == findIndex(S2.edges, LAMBDA e : e.source = idOf(S2, last)
                                                /\ e.target = idOf(S2, first))
            IN IF i # 0 THEN [S2 EXCEPT !.edges[i].class = class]
               ELSE [S2 EXCEPT !.edges = Append(@,
                        Edge(idOf(S2, last), idOf(S2, first), class,
                             freshEdge(S2)))]))

RECURSIVE pushRandomDoubly(_, _)
pushRandomDoubly(S, n) ==
    IF n = 0 \/ S.crash THEN S
    ELSE LET last == nodeAt(S, Len(S.nodes) - 1)
         IN then(IF Len(S.nodes) = 0 THEN throw(S)
                 ELSE normalizeGraph(pushNode(S, Len(S.nodes), "x")), LAMBDA S1 :
            IF S1.crash \/ Len(S1.nodes) <= 3 THEN pushRandomDoubly(S1, n - 1)
            ELSE LET newNode == nodeAt(S1, Len(S1.nodes) - 1)
                     f == Edge(idOf(S1, last), idOf(S1, newNode),
                               "roundCornerEdge", freshEdge(S1))
                 IN then([S1 EXCEPT !.edges = Append(@, f)], LAMBDA S3 :
                    pushRandomDoubly(
                        [S3 EXCEPT !.edges = Append(@,
                            Edge(f.target, f.source, "roundCornerEdge",
                                 freshEdge(S3)))], n - 1)))

DoublyRandomStructure(S, numOfElements) ==
    then(pushRandomDoubly(initStructureS(resetStructureS(S), 0), numOfElements),
    LAMBDA S1 :
    LET first == nodeAt(S1, 2)
        last == nodeAt(S1, Len(S1.nodes) - 1)
    IN IF S1.crash THEN S1
       ELSE IF ~isNode(S1, first) \/ ~isNode(S1, nodeAt(S1, 1)) THEN throw(S1)
       ELSE then([S1 EXCEPT !.edges = Append(@, Edge(idOf(S1, nodeAt(S1, 0)),
                             idOf(S1, first), "edgeFromInitPointer", freshEdge(S1)))],
            LAMBDA S2 :
            normalizeGraph([S2 EXCEPT !.edges = Append(@, Edge(idOf(S1, nodeAt(S1, 1)),
                             idOf(S1, last), "edgeFromInitPointer", freshEdge(S2)))])))

(***************************************************************************)
(* Public operation methods.  A call evaluates the guard and runs up to    *)
(* the first wait() in one step; the rest of the method runs when the      *)
(* timer fires.                                                            *)
(***************************************************************************)
MaxTasks == 2       \* method invocations suspended at the same time
MaxNodes == 5       \* list nodes (sentinels included) an insert stops at
FreeMaxNodes == 3   \* the same when the caller does not await its calls
MaxRandom == 3      \* numOfElements drawn by randomStructure
MaxInit == 5        \* slots asked of initStructure
FreeMaxInit == 2    \* the same when the caller does not await its calls
MaxWraps == 1       \* wrap edges below which randomStructure may overrun a queue
MaxTreeNodes == 11  \* rows of the tree table an insert may end with

KeysNow == IF awaited THEN Keys ELSE FreeKeys
NodesNow == IF awaited THEN MaxNodes ELSE FreeMaxNodes
InitNow == IF awaited THEN MaxInit ELSE FreeMaxInit

noArg == LogKey("")
element == LogKey("x")

Traversals == {"preOrderTraversal", "inOrderTraversal", "postOrderTraversal",
               "levelOrderTraversal"}
TreeMethods == {"insertNode", "deleteNode", "searchNode", "showHeight"}
                   \cup Traversals
SinglyMethods == {"insertFirstNode", "getFirstNodeValue", "getActiveNodeValue",
                  "deleteFirstNode", "activateFirstNode", "activateNextNode",
                  "setActiveNodeValue", "insertAfterActiveNode",
                  "deleteAfterActiveNode", "isListActive"}
DoublyMethods == SinglyMethods \cup
                 {"insertLastNode", "deleteLastNode", "getLastNodeValue",
                  "activatePreviousNode", "activateLastNode",
                  "insertBeforeActiveNode", "deleteBeforeActiveNode"}
ArrayMethods == {"addElement", "removeElement", "isEmpty", "isFull",
                 "foremostElement"}

Methods(v) == IF v = "tree" THEN TreeMethods
              ELSE IF v = "doubly" THEN DoublyMethods
              ELSE IF IsList(v) THEN SinglyMethods
              ELSE ArrayMethods

NeedsActiveNode == {"activateNextNode", "setActiveNodeValue",
                    "insertAfterActiveNode", "deleteAfterActiveNode",
                    "activatePreviousNode", "insertBeforeActiveNode",
                    "deleteBeforeActiveNode"}

\* the guard of a method that tests animationInProcess only
GuardWithoutIsInit(m) ==
    /\ ~animationInProcess
    /\ m \in NeedsActiveNode => activeNode # null
    /\ (m = "deleteAfterActiveNode" /\ variant = "singly") => Len(nodes) > 1
    /\ (m = "deleteAfterActiveNode" /\ variant = "circular"
          /\ ~viaDeleteFirstNode(Begin)) => Len(nodes) > 1

\* the condition under which the method does not return at its first line
Guard(m) ==
    /\ ~animationInProcess
    /\ isInit
    /\ m \in NeedsActiveNode => activeNode # null
    /\ (m = "deleteAfterActiveNode" /\ variant = "singly") => Len(nodes) > 1
    /\ (m = "deleteAfterActiveNode" /\ variant = "circular"
          /\ ~viaDeleteFirstNode(Begin)) => Len(nodes) > 1

\* what the method fixes at the call, before its first await
ArgAtCall(m, arg) ==
    IF m = "addElement" /\ variant = "queue"
    THEN Str(<<IF QueueIsFullNow(beginIndex, endIndex, initNumber)
               THEN "full" ELSE "notFull">>, FALSE, -1, arg.pre)
    ELSE IF m = "deleteAfterActiveNode" /\ variant = "circular"
    THEN LogKey(IF viaDeleteFirstNode(Begin) THEN "deleteFirstNode" ELSE "super")
    ELSE arg

\* the part of method m that runs after beforeAnimationStarts
Body(S, m, arg) ==
    LET v == S.variant IN
    CASE m = "insertNode" -> insertNodeBody(S, arg)
      [] m = "deleteNode" -> deleteNodeBody(S, arg)
      [] m = "searchNode" -> searchNodeBody(S, arg)
      [] m = "preOrderTraversal" -> traversalBody(S, "pre")
      [] m = "inOrderTraversal" -> traversalBody(S, "in")
      [] m = "postOrderTraversal" -> traversalBody(S, "post")
      [] m = "levelOrderTraversal" -> traversalBody(S, "level")
      [] m = "showHeight" -> showHeightBody(S)
      [] m = "insertFirstNode" ->
            IF v = "singly" THEN SinglyInsertFirstNode(S)
            ELSE IF v = "circular" THEN CircularInsertFirstNode(S)
            ELSE DoublyInsertFirstNode(S)
      [] m = "deleteFirstNode" ->
            IF v = "singly" THEN SinglyDeleteFirstNode(S)
            ELSE IF v = "circular" THEN CircularDeleteFirstNode(S)
            ELSE DoublyDeleteFirstNode(S)
      [] m = "insertAfterActiveNode" ->
            IF v = "singly" THEN SinglyInsertAfterActiveNode(S)
            ELSE IF v = "circular" THEN CircularInsertAfterActiveNode(S)
            ELSE DoublyInsertAfterActiveNode(S)
      [] m = "deleteAfterActiveNode" ->
            IF v = "singly" THEN SinglyDeleteAfterActiveNode(S)
            ELSE IF v = "circular"
            THEN CircularDeleteAfterActiveNode(S, arg.pre[1])
            ELSE DoublyDeleteAfterActiveNode(S)
      [] m = "activateFirstNode" ->
            IF v = "doubly" THEN DoublyActivateFirstNode(S)
            ELSE SinglyActivateFirstNode(S)
      [] m = "activateNextNode" ->
            IF v = "circular" THEN CircularActivateNextNode(S)
            ELSE SinglyActivateNextNode(S)
      [] m = "getFirstNodeValue" ->
            getFirstNodeValueBody(S, IF v = "doubly" THEN 2 ELSE 1)
      [] m = "getActiveNodeValue" -> getActiveNodeValueBody(S)
      [] m = "setActiveNodeValue" -> setActiveNodeValueBody(S)
      [] m = "isListActive" -> isListActiveBody(S)
      [] m = "insertLastNode" -> DoublyInsertLastNode(S)
      [] m = "deleteLastNode" -> DoublyDeleteLastNode(S)
      [] m = "getLastNodeValue" -> getLastNodeValueBody(S)
      [] m = "activatePreviousNode" -> activatePreviousNodeBody(S)
      [] m = "activateLastNode" -> activateLastNodeBody(S)
      [] m = "insertBeforeActiveNode" -> DoublyInsertBeforeActiveNode(S)
      [] m = "deleteBeforeActiveNode" -> DoublyDeleteBeforeActiveNode(S)
      [] m = "addElement" ->
            IF v = "stack" THEN StackAddElement(S, arg.pre[1])
            ELSE QueueAddElement(S, arg.suf[1], arg.pre[1] = "full")
      [] m = "removeElement" ->
            IF v = "stack" THEN StackRemoveElement(S) ELSE QueueRemoveElement(S)
      [] m = "isEmpty" -> IF v = "stack" THEN StackIsEmpty(S) ELSE QueueIsEmpty(S)
      [] m = "isFull" -> IF v = "stack" THEN StackIsFull(S) ELSE QueueIsFull(S)
      [] m = "foremostElement" ->
            IF v = "stack" THEN StackForemostElement(S)
            ELSE QueueForemostElement(S)

\* the callback values of the tail that the circular overrides run after
\* `await super...`
CircularTail(v, m, arg) ==
    IF v = "circular"
       /\ (m \in {"insertFirstNode", "deleteFirstNode", "insertAfterActiveNode"}
           \/ (m = "deleteAfterActiveNode" /\ arg.pre[1] = "deleteFirstNode"))
    THEN <<TRUE, FALSE>> ELSE <<>>

\* objects get their array position as reference once no local variable
\* holds them; a reference to an object that left the array becomes 0
position(S, r) ==
    IF r = null THEN null ELSE findIndex(S.nodes, LAMBDA n : n.ref = r)

\* writes the record back to the fields of the instance
Commit(S, flag) ==
    /\ isInit' = S.isInit
    /\ animationInProcess' = flag
    /\ nodes' = IF IsList(S.variant)
                THEN [i \in DOMAIN S.nodes |-> [S.nodes[i] EXCEPT !.ref = i]]
                ELSE S.nodes
    /\ edges' = IF IsList(S.variant)
                THEN [i \in DOMAIN S.edges |-> [S.edges[i] EXCEPT !.ref = i]]
                ELSE S.edges
    /\ activeNode' = S.activeNode
    /\ lastNode' = position(S, S.lastNode)
    /\ firstNode' = position(S, S.firstNode)
    /\ addingInProcees' = S.addingInProcees
    /\ treeNodes' = renumber(S.t)
    /\ initNumber' = S.initNumber
    /\ structureNodeArray' = S.arr
    /\ topIndex' = S.topIndex
    /\ beginIndex' = S.beginIndex
    /\ endIndex' = S.endIndex

TraversalLabel(m) ==
    CASE m = "preOrderTraversal" -> "PreOrder:"
      [] m = "inOrderTraversal" -> "InOrder:"
      [] m = "postOrderTraversal" -> "PostOrder:"
      [] m = "levelOrderTraversal" -> "LevelOrder:"

Called(m, arg, phase) == [method |-> m, phase |-> phase]

\* a call of an async operation method
Call(m, arg) ==
    /\ m \in Methods(variant)
    /\ awaited => tasks = <<>>
    /\ Guard(m) => Len(tasks) < MaxTasks
    /\ UNCHANGED <<variant, awaited>>
    /\ IF ~Guard(m)
       THEN /\ called' = Called(m, arg, "return")
            /\ logged' = <<>>
            /\ reported' = <<>>
            /\ UNCHANGED <<structure, tasks>>
       ELSE IF m \in Traversals
       THEN \* this.log(...); await this.wait(1.5)
            /\ called' = Called(m, arg, "call")
            /\ logged' = <<LogKey(TraversalLabel(m))>>
            /\ reported' = <<>>
            /\ tasks' = Append(tasks, [method |-> m, arg |-> arg, at |-> "wait"])
            /\ UNCHANGED structure
       ELSE IF m = "activateNextNode" /\ variant = "circular"
       THEN \* no await at all
            /\ called' = Called(m, arg, "call")
            /\ logged' = <<>>
            /\ reported' = <<TRUE, FALSE>>
            /\ Commit(CircularActivateNextNode(Begin), FALSE)
            /\ UNCHANGED tasks
       ELSE \* await this.beforeAnimationStarts()
            /\ called' = Called(m, arg, "call")
            /\ logged' = <<>>
            /\ reported' = <<TRUE>>
            /\ tasks' = Append(tasks, [method |-> m, arg |-> ArgAtCall(m, arg),
                                       at |-> "beforeAnimationStarts"])
            /\ Commit([Begin EXCEPT
                         !.addingInProcees =
                            IF variant = "circular"
                               /\ m \in {"insertFirstNode", "insertAfterActiveNode"}
                            THEN TRUE ELSE @],
                      TRUE)

\* the traversal has waited and reaches beforeAnimationStarts
Resume(i) ==
    /\ called' = Called(tasks[i].method, tasks[i].arg, "resume")
    /\ logged' = <<>>
    /\ reported' = <<TRUE>>
    /\ tasks' = [tasks EXCEPT ![i].at = "beforeAnimationStarts"]
    /\ Commit(Begin, TRUE)

\* the method has run its body to S: afterAnimationEnds, unless it threw
Finish(i, S) ==
    /\ called' = Called(tasks[i].method, tasks[i].arg,
                        IF S.crash THEN "throw" ELSE "finish")
    /\ logged' = S.log
    /\ reported' = IF S.crash THEN <<>>
                   ELSE <<FALSE>> \o CircularTail(variant, tasks[i].method,
                                                  tasks[i].arg)
    /\ tasks' = splice(tasks, i)
    /\ Commit(S, IF S.crash THEN animationInProcess ELSE FALSE)

\* a timer set by wait() fires and the suspended method runs on
wait ==
    \E i \in DOMAIN tasks :
        /\ UNCHANGED <<variant, awaited>>
        /\ IF tasks[i].at = "wait" THEN Resume(i)
           ELSE Finish(i, Body(Begin, tasks[i].method, tasks[i].arg))

\* a synchronous lifecycle method; a TypeError on its way leaves it by throw
Lifecycle(m, S) ==
    /\ awaited => tasks = <<>>
    /\ called' = Called(m, noArg, IF S.crash THEN "throw" ELSE "call")
    /\ logged' = <<>>
    /\ reported' = <<>>
    /\ Commit(S, animationInProcess)
    /\ UNCHANGED <<variant, awaited, tasks>>

initStructure ==
    \E init \in (IF IsArray(variant) THEN 1..InitNow ELSE {0}) :
        Lifecycle("initStructure", initStructureS(Begin, init))

resetStructure == Lifecycle("resetStructure", resetStructureS(Begin))

\* the arrays draw initNum from 5 up (to 10, here to MaxInit) and fill 2 to
\* initNum - 1 slots; initNum goes unused when initStructure returns at once
randomStructure ==
    \E initNum \in (IF IsArray(variant) /\ ~animationInProcess
                    THEN 5..MaxInit ELSE {0}) :
    \E numOfElements \in (IF IsArray(variant) /\ ~animationInProcess
                          THEN 2..(initNum - 1) ELSE 2..MaxRandom) :
        /\ IsList(variant) \/ IsArray(variant)
        /\ (IsList(variant) /\ animationInProcess)
              => Len(nodes) + numOfElements <= NodesNow
        /\ (variant = "stack" /\ animationInProcess) => topIndex < initNumber
        /\ (variant = "queue" /\ animationInProcess) => Len(edges) < MaxWraps
        /\ Lifecycle("randomStructure",
              IF variant = "singly"
              THEN SinglyRandomStructure(Begin, numOfElements)
              ELSE IF variant = "circular"
              THEN CircularRandomStructure(Begin, numOfElements)
              ELSE IF variant = "doubly"
              THEN DoublyRandomStructure(Begin, numOfElements)
              ELSE ArrayRandomStructure(Begin, initNum, numOfElements))

\* BinarySearchTree
insertNode == \E key \in KeysNow : /\ Len(treeNodes) + 2 <= MaxTreeNodes
                                /\ Call("insertNode", key)
deleteNode == \E key \in KeysNow : Call("deleteNode", key)
searchNode == \E key \in KeysNow : Call("searchNode", key)
preOrderTraversal == Call("preOrderTraversal", noArg)
inOrderTraversal == Call("inOrderTraversal", noArg)
postOrderTraversal == Call("postOrderTraversal", noArg)
levelOrderTraversal == Call("levelOrderTraversal", noArg)
showHeight == Call("showHeight", noArg)

\* SinglyLinkedList, CircularSinglyLinkedList, DoublyLinkedList
insertFirstNode == Len(nodes) < NodesNow /\ Call("insertFirstNode", element)
getFirstNodeValue == Call("getFirstNodeValue", noArg)
getActiveNodeValue == Call("getActiveNodeValue", noArg)
deleteFirstNode == Call("deleteFirstNode", noArg)
activateFirstNode == Call("activateFirstNode", noArg)
activateNextNode == Call("activateNextNode", noArg)
setActiveNodeValue == Call("setActiveNodeValue", element)
insertAfterActiveNode ==
    Len(nodes) < NodesNow /\ Call("insertAfterActiveNode", element)
deleteAfterActiveNode == Call("deleteAfterActiveNode", noArg)
isListActive == Call("isListActive", noArg)
insertLastNode == Len(nodes) < NodesNow /\ Call("insertLastNode", element)
deleteLastNode == Call("deleteLastNode", noArg)
getLastNodeValue == Call("getLastNodeValue", noArg)
activatePreviousNode == Call("activatePreviousNode", noArg)
activateLastNode == Call("activateLastNode", noArg)
insertBeforeActiveNode ==
    Len(nodes) < NodesNow /\ Call("insertBeforeActiveNode", element)
deleteBeforeActiveNode == Call("deleteBeforeActiveNode", noArg)

\* StackClass, QueueClass
addElement == Call("addElement", element)
removeElement == Call("removeElement", noArg)
isEmpty == Call("isEmpty", noArg)
isFull == Call("isFull", noArg)
foremostElement == Call("foremostElement", noArg)

(***************************************************************************)
(* Specifications                                                          *)
(***************************************************************************)
\* the fields as the constructors leave them
Constructed ==
    /\ isInit = FALSE
    /\ animationInProcess = FALSE
    /\ nodes = <<>>
    /\ edges = <<>>
    /\ activeNode = null
    /\ lastNode = null
    /\ firstNode = null
    /\ addingInProcees = FALSE
    /\ treeNodes = <<>>
    /\ initNumber = 0
    /\ structureNodeArray = <<>>
    /\ topIndex = null
    /\ beginIndex = 0
    /\ endIndex = 0
    /\ tasks = <<>>
    /\ logged = <<>>
    /\ reported = <<>>
    /\ called = Called("constructor", noArg, "call")

TreeOperations ==
    \/ insertNode \/ deleteNode \/ searchNode \/ preOrderTraversal
    \/ inOrderTraversal \/ postOrderTraversal \/ levelOrderTraversal
    \/ showHeight

ListOperations ==
    \/ insertFirstNode \/ getFirstNodeValue \/ getActiveNodeValue
    \/ deleteFirstNode \/ activateFirstNode \/ activateNextNode
    \/ setActiveNodeValue \/ insertAfterActiveNode \/ deleteAfterActiveNode
    \/ isListActive \/ insertLastNode \/ deleteLastNode \/ getLastNodeValue
    \/ activatePreviousNode \/ activateLastNode \/ insertBeforeActiveNode
    \/ deleteBeforeActiveNode

ArrayOperations ==
    addElement \/ removeElement \/ isEmpty \/ isFull \/ foremostElement

\* any caller: calls arrive at any time, also while a method is suspended
Init ==
    /\ variant \in {"singly", "circular", "doubly", "stack", "queue", "tree"}
    /\ awaited = FALSE
    /\ Constructed

Next ==
    \/ initStructure \/ resetStructure \/ randomStructure
    \/ TreeOperations \/ ListOperations \/ ArrayOperations
    \/ wait

Spec == Init /\ [][Next]_vars

\* a binary search tree whose caller awaits every call
InitTree == variant = "tree" /\ awaited = TRUE /\ Constructed
NextTree == initStructure \/ resetStructure \/ TreeOperations \/ wait
SpecTree == InitTree /\ [][NextTree]_vars

\* a list whose caller awaits every call
InitList ==
    /\ variant \in {"singly", "circular", "doubly"}
    /\ awaited = TRUE
    /\ Constructed
NextList ==
    \/ initStructure \/ resetStructure \/ randomStructure
    \/ ListOperations \/ wait
SpecList == InitList /\ [][NextList]_vars

\* a stack or a queue whose caller awaits every call
InitArray == variant \in {"stack", "queue"} /\ awaited = TRUE /\ Constructed
NextArray ==
    \/ initStructure \/ resetStructure \/ randomStructure
    \/ ArrayOperations \/ wait
SpecArray == InitArray /\ [][NextArray]_vars

\* a queue whose awaiting caller adds two different values
Elements == {"x", "y"}
addElementOfTwo == \E e \in Elements : Call("addElement", LogKey(e))
InitQueue == variant = "queue" /\ awaited = TRUE /\ Constructed
NextQueue ==
    \/ initStructure \/ resetStructure \/ randomStructure
    \/ addElementOfTwo \/ removeElement \/ foremostElement \/ wait
SpecQueue == InitQueue /\ [][NextQueue]_vars

\* a binary search tree whose awaiting caller works with the keys 3, 5, 7, 8
\* and 9
ExampleKeys == {normalizeInput(k) : k \in {3, 5, 7, 8, 9}}
insertExampleKey ==
    \E key \in ExampleKeys : /\ Len(treeNodes) + 2 <= MaxTreeNodes
                              /\ Call("insertNode", key)
deleteExampleKey == \E key \in ExampleKeys : Call("deleteNode", key)
NextExample ==
    \/ initStructure \/ resetStructure
    \/ insertExampleKey \/ deleteExampleKey \/ wait
SpecExample == InitTree /\ [][NextExample]_vars

\* the slots from beginIndex up to endIndex, around the array end
occupied(i, b, e) == IF b <= e THEN b <= i /\ i < e ELSE i >= b \/ i < e

\* an initialised queue at any pair of indices, as adds and removes leave it;
\* the only operation is isFull
InitQueueIndices ==
    /\ variant = "queue" /\ awaited = TRUE
    /\ initNumber \in 1..MaxInit
    /\ beginIndex \in 0..(initNumber - 1)
    /\ endIndex \in 0..(initNumber - 1)
    /\ isInit = TRUE /\ animationInProcess = FALSE
    /\ nodes = <<>>
    /\ edges = IF endIndex < beginIndex
               THEN <<EdgeData(initNumber - 1, 0, "circleEdge")>> ELSE <<>>
    /\ structureNodeArray =
          [i \in 1..initNumber |->
              IF occupied(i - 1, beginIndex, endIndex) THEN "x" ELSE ""]
    /\ activeNode = null /\ lastNode = null /\ firstNode = null
    /\ addingInProcees = FALSE /\ treeNodes = <<>> /\ topIndex = null
    /\ tasks = <<>> /\ logged = <<>> /\ reported = <<>>
    /\ called = Called("initStructure", noArg, "call")
NextQueueIndices == isFull \/ wait
SpecQueueIndices == InitQueueIndices /\ [][NextQueueIndices]_vars

\* an instance of any class whose caller awaits every call
InitAwaited ==
    /\ variant \in {"singly", "circular", "doubly", "stack", "queue", "tree"}
    /\ awaited = TRUE
    /\ Constructed
SpecAwaited == InitAwaited /\ [][Next]_vars

(***************************************************************************)
(* Properties                                                              *)
(***************************************************************************)
\* an invocation of one of the public operation methods
Operation == TreeOperations \/ ListOperations \/ ArrayOperations

\* no method is suspended and none has thrown on its way
Settled == tasks = <<>> /\ ~animationInProcess

InsertDelete == {"insertFirstNode", "insertAfterActiveNode", "deleteFirstNode",
                 "deleteAfterActiveNode", "insertLastNode", "deleteLastNode",
                 "insertBeforeActiveNode", "deleteBeforeActiveNode"}

\* C1: at no moment are two operations of one instance in progress: while an
\* operation that passed its guard has not finished, no other operation
\* starts, so at most one method invocation is ever suspended at a wait.
C1_OneOperationInProgress == Len(tasks) <= 1

\* C2: an operation method invoked while the animating flag is set, or
\* before initStructure has run, changes no field of the structure, starts
\* nothing, logs nothing and reports no status.
C2_GuardedCallIsSilent ==
    [][((animationInProcess \/ ~isInit) /\ Operation) =>
         (UNCHANGED <<structure, tasks>> /\ logged' = <<>> /\ reported' = <<>>)]_vars

\* a refused call has just returned while another method is suspended
C2_Witness == called.phase = "return" /\ animationInProcess /\ tasks # <<>>

\* C3: resetStructure called between the start and the completion of another
\* operation changes nothing: nodes, edges, slots, cursors, tree table and
\* isInit stay as they were.
C3_ResetDuringOperationIsNoOp ==
    [][(tasks # <<>> /\ resetStructure) => UNCHANGED structure]_vars

\* C4: every operation that passed its guard finishes and clears the flag:
\* once no method invocation is left to run, the animating flag is clear.
C4_FlagClearedWhenNothingRuns == tasks = <<>> => ~animationInProcess

isKeyNode(n) == ~isNullNode(n.id)
inTable(id) == \E j \in DOMAIN treeNodes : treeNodes[j].id = id

\* C5: after any sequence of insertNode, searchNode and deleteNode, the left
\* and the right reference of every key node name a node of the table.
C5_ChildReferencesResolve ==
    tasks = <<>> =>
        \A i \in DOMAIN treeNodes :
            isKeyNode(treeNodes[i]) =>
                inTable(treeNodes[i].left) /\ inTable(treeNodes[i].right)

\* C6: the tree table never holds two key nodes with the same key.
C6_KeysAreUnique ==
    \A i, j \in DOMAIN treeNodes :
        (i # j /\ isKeyNode(treeNodes[i]) /\ isKeyNode(treeNodes[j]))
            => treeNodes[i].id # treeNodes[j].id

WrapEdges == {i \in DOMAIN edges : isCircleEdge(edges[i])}
LastToFirst == {i \in DOMAIN edges : /\ edges[i].source = nodes[Len(nodes)].id
                                     /\ edges[i].target = nodes[2].id}

\* C7: a circular list with at least one data node has exactly one wrap
\* edge; it runs from the last data node to the first, no other edge does,
\* and it has the self-loop class exactly when there is a single data node.
\* Without a data node there is no wrap edge.
C7_OneWrapEdge ==
    (variant = "circular" /\ Settled) =>
        IF Len(nodes) >= 2
        THEN /\ Cardinality(WrapEdges) = 1
             /\ WrapEdges = LastToFirst
             /\ \A i \in WrapEdges :
                   (edges[i].class = "singleNodeCircleEdge") <=> (Len(nodes) = 2)
        ELSE WrapEdges = {}

\* deleteFirstNode has finished on a circular list that keeps two data nodes
C7_Witness ==
    /\ variant = "circular" /\ Settled
    /\ called = Called("deleteFirstNode", noArg, "finish")
    /\ Len(nodes) >= 3

HasReverse(e) ==
    \E j \in DOMAIN edges : edges[j].source = e.target /\ edges[j].target = e.source

\* C8: in a doubly linked list every edge between two data nodes has its
\* reverse; the only edges without one run from the head sentinel to the
\* first data node and from the tail sentinel to the last data node.
C8_EveryDataEdgeHasReverse ==
    (variant = "doubly" /\ Settled) =>
        \A i \in DOMAIN edges :
            /\ (edges[i].source >= 2 /\ edges[i].target >= 2)
                  => HasReverse(edges[i])
            /\ ~HasReverse(edges[i]) =>
                  \/ edges[i].source = 0 /\ edges[i].target = 2
                  \/ edges[i].source = 1 /\ edges[i].target = Len(nodes) - 1

\* deleteBeforeActiveNode has finished in the middle of a doubly linked list
C8_Witness ==
    /\ variant = "doubly" /\ Settled
    /\ called = Called("deleteBeforeActiveNode", noArg, "finish")
    /\ Len(nodes) >= 4
    /\ \E i \in DOMAIN edges : edges[i].source >= 2 /\ edges[i].target >= 2

\* C9: the active index of a list is null or the index of a data node: at
\* least 1 (singly, circular) or 2 (doubly) and less than the array length.
C9_ActiveIndexIsDataNode ==
    IsList(variant) =>
        \/ activeNode = null
        \/ /\ activeNode >= (IF variant = "doubly" THEN 2 ELSE 1)
           /\ activeNode < Len(nodes)

\* activateNextNode has moved the active index onto the last data node
C9_Witness ==
    /\ IsList(variant)
    /\ called = Called("activateNextNode", noArg, "finish")
    /\ activeNode = Len(nodes) - 1
    /\ Len(nodes) >= 4

\* C10: a list insert or delete leaves the active index on the element it
\* designated before (the node object that was at that index), and makes it
\* null when that node is the one deleted.
C10_ActiveIndexFollowsElement ==
    [][(/\ called'.phase = "finish"
        /\ called'.method \in InsertDelete
        /\ IsList(variant) /\ activeNode # null /\ Len(tasks) = 1) =>
          LET S == Body(Begin, tasks[1].method, tasks[1].arg)
              p == position(S, activeNode + 1)
          IN activeNode' = IF p = 0 THEN null ELSE p - 1]_vars

\* insertFirstNode has finished and the active element sits one index further
C10_Witness ==
    /\ IsList(variant)
    /\ called = Called("insertFirstNode", element, "finish")
    /\ activeNode # null
    /\ activeNode >= (IF variant = "doubly" THEN 3 ELSE 2)

\* the first data node of a list: behind one sentinel, or behind two
firstData == IF variant = "doubly" THEN 2 ELSE 1

\* the source and target of every edge that is not the wrap edge
Links == {<<edges[i].source, edges[i].target>> :
             i \in {j \in DOMAIN edges : ~isCircleEdge(edges[j])}}

\* the edges of a list whose data nodes are linked in array order
LinksInArrayOrder ==
    LET n == Len(nodes)
        forward == {<<i, i + 1>> : i \in firstData..(n - 2)}
        head == IF n > firstData THEN {<<0, firstData>>} ELSE {}
    IN IF variant = "doubly"
       THEN head \cup forward \cup {<<l[2], l[1]>> : l \in forward}
                 \cup (IF n > firstData THEN {<<1, n - 1>>} ELSE {})
       ELSE head \cup forward

\* C11: when a list operation has completed, the node at array position i
\* has id i, and following the edges from the head sentinel visits the data
\* nodes in array order: the edges link each data node to the next one of
\* the array and nothing else.
C11_IdsArePositionsInListOrder ==
    (IsList(variant) /\ Settled) =>
        /\ \A i \in DOMAIN nodes : nodes[i].id = i - 1
        /\ Links = LinksInArrayOrder

\* insertAfterActiveNode has finished placing a node in the middle of a list
C11_Witness ==
    /\ IsList(variant) /\ Settled
    /\ called = Called("insertAfterActiveNode", element, "finish")
    /\ activeNode # null /\ activeNode + 2 < Len(nodes)

\* the number of values a stack holds
StackHeight == IF topIndex = null THEN 0 ELSE topIndex + 1

\* C12: a stack of capacity N that starts empty takes N values: addElement
\* on a stack holding fewer than N values stores its value on top, on a
\* stack holding N it logs the full key and changes nothing; removeElement
\* on a stack holding a value removes the top one, on an empty stack it logs
\* the empty key.
C12_StackTakesItsCapacity ==
    [][(variant = "stack" /\ called'.phase = "finish") =>
         /\ called'.method = "addElement" =>
               IF StackHeight < initNumber
               THEN /\ topIndex' = StackHeight
                    /\ structureNodeArray' =
                          [structureNodeArray EXCEPT ![StackHeight + 1] = "x"]
                    /\ logged' = <<>>
               ELSE /\ UNCHANGED <<topIndex, structureNodeArray>>
                    /\ logged' = <<LogKey("stack.addFull")>>
         /\ called'.method = "removeElement" =>
               IF StackHeight > 0
               THEN /\ topIndex' = IF StackHeight = 1 THEN null ELSE topIndex - 1
                    /\ structureNodeArray' =
                          [structureNodeArray EXCEPT ![StackHeight] = ""]
                    /\ logged' = <<>>
               ELSE /\ UNCHANGED <<topIndex, structureNodeArray>>
                    /\ logged' = <<LogKey("stack.removeEmpty")>>]_vars

\* the number of values a queue holds
Filled == Cardinality({i \in DOMAIN structureNodeArray :
                          structureNodeArray[i] # ""})

\* C13: a queue of capacity 5 that starts empty: after 4 adds (beginIndex 0,
\* endIndex 4, four values) isFull reports not full and addElement stores a
\* fifth value; with five values isFull reports full and addElement changes
\* nothing and logs the full key.
C13_QueueOfFiveTakesFive ==
    [][(/\ variant = "queue" /\ initNumber = 5 /\ beginIndex = 0
        /\ called'.phase = "finish") =>
         /\ (Filled = 4 /\ endIndex = 4 /\ called'.method = "isFull")
               => logged' = <<LogKey("queue.notFull")>>
         /\ (Filled = 4 /\ endIndex = 4 /\ called'.method = "addElement")
               => /\ structureNodeArray' = [i \in 1..5 |-> "x"]
                  /\ logged' = <<>>
         /\ (Filled = 5 /\ called'.method = "isFull")
               => logged' = <<LogKey("queue.full")>>
         /\ (Filled = 5 /\ called'.method = "addElement")
               => /\ UNCHANGED <<structureNodeArray, beginIndex, endIndex>>
                  /\ logged' = <<LogKey("queue.addFull")>>]_vars

\* C14: for every capacity N and all indices below N the full test that
\* isFull applies is true exactly when (endIndex + 1) mod N = beginIndex.
C14_FullTestIsModularSuccessor ==
    [][(variant = "queue" /\ called'.method = "isFull"
          /\ called'.phase = "finish") =>
         logged' = <<LogKey(IF (endIndex + 1) % initNumber = beginIndex
                            THEN "queue.full" ELSE "queue.notFull")>>]_vars

\* isFull has reported full with endIndex wrapped below beginIndex
C14_Witness ==
    /\ variant = "queue"
    /\ called = Called("isFull", noArg, "finish")
    /\ logged = <<LogKey("queue.full")>>
    /\ endIndex < beginIndex

\* C15: in a queue of capacity N that starts empty, N adds, 2 removes and 2
\* more adds all take effect and move the indices modulo N: addElement on a
\* queue holding fewer than N values stores its value and advances endIndex
\* by one modulo N, removeElement on a queue holding a value clears the
\* front slot and advances beginIndex by one modulo N.
C15_IndicesAdvanceModuloN ==
    [][(variant = "queue" /\ called'.phase = "finish") =>
         /\ (called'.method = "addElement" /\ Filled < initNumber)
               => /\ Filled' = Filled + 1
                  /\ endIndex' = (endIndex + 1) % initNumber
                  /\ beginIndex' = beginIndex
         /\ (called'.method = "removeElement" /\ Filled > 0)
               => /\ Filled' = Filled - 1
                  /\ beginIndex' = (beginIndex + 1) % initNumber
                  /\ endIndex' = endIndex]_vars

\* C16: when a queue operation has completed the edge list holds at most one
\* edge, the wrap edge from the last slot to the first, and it holds it
\* exactly when endIndex is below beginIndex.
C16_WrapEdgeWhileEndIsBelowBegin ==
    (variant = "queue" /\ isInit /\ Settled) =>
        /\ Len(edges) <= 1
        /\ \A i \in DOMAIN edges :
              edges[i] = EdgeData(initNumber - 1, 0, "circleEdge")
        /\ (edges # <<>>) <=> (endIndex < beginIndex)

\* removeElement has cleared the last slot, beginIndex has wrapped and the
\* wrap edge is gone
C16_Witness ==
    /\ variant = "queue" /\ isInit /\ Settled
    /\ called = Called("removeElement", noArg, "finish")
    /\ beginIndex = 0 /\ endIndex > 0 /\ edges = <<>>
    /\ initNumber >= 3

\* the keys a tree table holds and the rows that hold them
KeyRows(t) == {i \in DOMAIN t : isKeyNode(t[i])}
KeyIds(t) == {t[i].id : i \in KeyRows(t)}
keysAre(t, K) ==
    KeyIds(t) = {normalizeInput(k) : k \in K} /\ Cardinality(KeyRows(t)) = Cardinality(K)

\* a reference that names a null-placeholder row of the table
namesPlaceholder(t, id) == isNullNode(id) /\ \E i \in DOMAIN t : t[i].id = id

\* the row of key k has the keys l and r as its children
hasChildren(t, k, l, r) ==
    \E i \in DOMAIN t : /\ t[i].id = normalizeInput(k)
                         /\ t[i].left = normalizeInput(l)
                         /\ t[i].right = normalizeInput(r)

\* the row of key k has two null-placeholders as its children
isLeaf(t, k) ==
    \E i \in DOMAIN t : /\ t[i].id = normalizeInput(k)
                         /\ namesPlaceholder(t, t[i].left)
                         /\ namesPlaceholder(t, t[i].right)

\* the tree that inserting 5, 3, 8, 7, 9 builds
TreeOfFive(t) ==
    /\ keysAre(t, {3, 5, 7, 8, 9})
    /\ t[1].id = normalizeInput(5)
    /\ hasChildren(t, 5, 3, 8) /\ hasChildren(t, 8, 7, 9)
    /\ isLeaf(t, 3) /\ isLeaf(t, 7) /\ isLeaf(t, 9)

\* the step in which deleteNode(k) runs to its end
deleteNodeEnds(k) ==
    /\ Len(tasks) = 1
    /\ tasks[1].method = "deleteNode" /\ tasks[1].arg = normalizeInput(k)
    /\ called'.phase \in {"finish", "throw"}

\* C17: on the tree built by inserting 5, 3, 8, 7, 9, deleteNode(5) leaves
\* exactly the keys 3, 7, 8, 9, and key 7 sits in the root slot.
C17_SuccessorTakesTheRoot ==
    [][(TreeOfFive(treeNodes) /\ deleteNodeEnds(5)) =>
         /\ called'.phase = "finish"
         /\ keysAre(treeNodes', {3, 7, 8, 9})
         /\ treeNodes'[1].id = normalizeInput(7)]_vars

\* deleteNode has finished and left 7 in the root slot above 3, 8 and 9
C17_Witness ==
    /\ called = Called("deleteNode", noArg, "finish")
    /\ keysAre(treeNodes, {3, 7, 8, 9})
    /\ treeNodes[1].id = normalizeInput(7)
    /\ Len(treeNodes) = 9

\* C18 as stated: after deleteNode(5) has promoted 7 in that tree, both the
\* left and the right child of the node holding 7 are null-placeholders.
C18_PromotedNodeIsLeaf ==
    [][(TreeOfFive(treeNodes) /\ deleteNodeEnds(5)) => isLeaf(treeNodes', 7)]_vars

\* C18: after deleteNode(5) has promoted 7 in that tree, the node holding 7
\* has the children of the deleted node, 3 on its left and 8 on its right;
\* the place 7 came from, the left reference of 8, names a null-placeholder
\* of the table and the right child of 8 is still 9.
C18_PromotedNodeTakesTheChildren ==
    [][(TreeOfFive(treeNodes) /\ deleteNodeEnds(5)) =>
         /\ hasChildren(treeNodes', 7, 3, 8)
         /\ \E i \in DOMAIN treeNodes' :
               /\ treeNodes'[i].id = normalizeInput(8)
               /\ namesPlaceholder(treeNodes', treeNodes'[i].left)
               /\ treeNodes'[i].right = normalizeInput(9)]_vars

\* deleteNode has finished with 7 above 3 and 8 and a placeholder left of 8
C18_Witness ==
    /\ called = Called("deleteNode", noArg, "finish")
    /\ hasChildren(treeNodes, 7, 3, 8)
    /\ isLeaf(treeNodes, 3) /\ isLeaf(treeNodes, 9)
    /\ \E i \in DOMAIN treeNodes :
          /\ treeNodes[i].id = normalizeInput(8)
          /\ namesPlaceholder(treeNodes, treeNodes[i].left)
          /\ treeNodes[i].right = normalizeInput(9)

\* C19: on a tree holding exactly 5, 3 and 8 with 5 at the root,
\* deleteNode(3) leaves exactly the keys 5 and 8; the left reference of 5
\* names a null-placeholder of the table and its right child is still 8.
C19_LeafBecomesPlaceholder ==
    [][(/\ keysAre(treeNodes, {3, 5, 8})
        /\ treeNodes[1].id = normalizeInput(5)
        /\ hasChildren(treeNodes, 5, 3, 8)
        /\ deleteNodeEnds(3)) =>
         /\ called'.phase = "finish"
         /\ keysAre(treeNodes', {5, 8})
         /\ \E i \in DOMAIN treeNodes' :
               /\ treeNodes'[i].id = normalizeInput(5)
               /\ namesPlaceholder(treeNodes', treeNodes'[i].left)
               /\ treeNodes'[i].right = normalizeInput(8)
         /\ isLeaf(treeNodes', 8)]_vars

\* deleteNode has finished on a tree that keeps 5 at the root with only its
\* right child 8
C19_Witness ==
    /\ called = Called("deleteNode", noArg, "finish")
    /\ keysAre(treeNodes, {5, 8})
    /\ treeNodes[1].id = normalizeInput(5)
    /\ treeNodes[1].left = nullChildId(normalizeInput(5), "-left")
    /\ treeNodes[1].right = normalizeInput(8)
    /\ Len(treeNodes) = 5

\* C20: deleteNode(k) on a tree that holds a key but not k logs that the
\* key was not found, under a key other than the one for an empty tree.
C20_MissingKeyIsReported ==
    [][(/\ variant = "tree" /\ Len(tasks) = 1
        /\ tasks[1].method = "deleteNode"
        /\ KeyRows(treeNodes) # {}
        /\ tasks[1].arg \notin KeyIds(treeNodes)
        /\ called'.phase = "finish") =>
         /\ logged' # <<>>
         /\ \A i \in DOMAIN logged' : logged'[i] # LogKey("tree.deleteEmpty")]_vars

\* what a row of the tree table says about the tree: its key or placeholder
\* id, its value and its left and right references
shape(t) == [i \in DOMAIN t |->
                [id |-> t[i].id, value |-> t[i].value, left |-> t[i].left,
                 right |-> t[i].right, placeholder |-> t[i].class = "nullNode"]]

\* C21: when searchNode(k), for any key k, or deleteNode(k), for a key k that
\* is not in the tree, has completed, the tree table is as it was before the
\* call: the same rows in the same order with the same keys, the same left and
\* right references and the same null-placeholders.
C21_SearchAndMissingDeleteKeepTheTable ==
    [][(/\ variant = "tree" /\ Len(tasks) = 1
        /\ called'.phase = "finish"
        /\ \/ tasks[1].method = "searchNode"
           \/ /\ tasks[1].method = "deleteNode"
              /\ tasks[1].arg \notin KeyIds(treeNodes)) =>
         shape(treeNodes') = shape(treeNodes)]_vars

\* searchNode has found its key in a tree of at least two keys
C21_Witness ==
    /\ variant = "tree"
    /\ called.method = "searchNode" /\ called.phase = "finish"
    /\ logged = <<LogKey("tree.searchFound")>>
    /\ Cardinality(KeyRows(treeNodes)) >= 2

\* the ids reached from the ids in R by following left and right references
RECURSIVE reachable(_, _)
reachable(t, R) ==
    LET more == R \cup {t[i].left : i \in {j \in DOMAIN t : t[j].id \in R}}
                  \cup {t[i].right : i \in {j \in DOMAIN t : t[j].id \in R}}
    IN IF more = R THEN R ELSE reachable(t, more)

\* the references of key rows that name the id
referrers(t, id) ==
    {<<i, side>> \in KeyRows(t) \X {"left", "right"} : t[i][side] = id}

\* C22: after any sequence of insertNode and deleteNode, every row of the
\* tree table is reached from the first row by following left and right
\* references, and every null-placeholder is referenced by exactly one key
\* node, or is the only row of the table, the root placeholder of an empty
\* tree.
C22_NoOrphanInTheTable ==
    (variant = "tree" /\ Settled /\ treeNodes # <<>>) =>
        /\ \A i \in DOMAIN treeNodes :
              treeNodes[i].id \in reachable(treeNodes, {treeNodes[1].id})
        /\ \A i \in DOMAIN treeNodes :
              isNullNode(treeNodes[i].id) =>
                 \/ Cardinality(referrers(treeNodes, treeNodes[i].id)) = 1
                 \/ Len(treeNodes) = 1 /\ treeNodes[i].id = nullNodeId

\* C23: no public operation raises an exception: whatever operations, resets
\* and random generations are called, with any accepted value, key or
\* capacity and at any moment, no method invocation ends by throwing.
C23_NoOperationThrows == called.phase # "throw"

\* the log keys that name an empty list or a missing active node
EmptyOrNotActiveKeys ==
    {LogKey(k) : k \in {"list.deleteFirstEmpty", "list.deleteLastEmpty",
                        "list.deleteAfterEmpty", "list.deleteBeforeEmpty",
                        "list.firstEmpty", "list.lastEmpty", "list.notActive",
                        "list.getActiveError"}}

\* the precondition of list method m fails: a delete at an end of a list
\* without data nodes, or an active-node operation while no node is active
PreconditionFails(m) ==
    \/ m \in {"deleteFirstNode", "deleteLastNode"} /\ Len(nodes) <= firstData
    \/ m \in NeedsActiveNode /\ activeNode = null

\* C24: every list operation whose precondition fails, a delete on an empty
\* list or an active-node operation while no node is active, emits a log
\* entry whose key names the empty or not-active condition: the call neither
\* returns at its guard nor finishes without such an entry.
C24_FailedPreconditionIsLogged ==
    [][(/\ IsList(variant) /\ isInit
        /\ \/ called'.phase = "return" /\ ~animationInProcess
           \/ called'.phase = "finish"
        /\ PreconditionFails(called'.method)) =>
         /\ logged' # <<>>
         /\ \A i \in DOMAIN logged' : logged'[i] \in EmptyOrNotActiveKeys]_vars

\* method m does not apply to the current state
Inapplicable(m) ==
    \/ /\ variant = "stack"
       /\ \/ m \in {"removeElement", "foremostElement"} /\ StackHeight = 0
          \/ m = "addElement" /\ StackHeight >= initNumber
    \/ /\ variant = "queue"
       /\ \/ m \in {"removeElement", "foremostElement"} /\ beginIndex = endIndex
          \/ m = "addElement" /\ (endIndex + 1) % initNumber = beginIndex
    \/ /\ IsList(variant)
       /\ m \in {"deleteFirstNode", "deleteLastNode"} /\ Len(nodes) <= firstData
    \/ /\ variant \in {"singly", "doubly"} /\ activeNode # null
       /\ \/ m = "deleteAfterActiveNode" /\ activeNode = Len(nodes) - 1
          \/ m = "deleteBeforeActiveNode" /\ activeNode = firstData
    \/ variant = "tree" /\ m = "deleteNode" /\ KeyRows(treeNodes) = {}

\* C25: in every variant an operation that does not apply to the current
\* state (remove or peek on an empty stack or queue, add to a full one,
\* delete on an empty list or tree, delete-after on the last node, delete-
\* before on the first) leaves nodes, edges, slots, cursors, active index and
\* tree table as they were, both when it is called and when it is over.
C25_InapplicableOperationChangesNothing ==
    [][(/\ isInit
        /\ called'.phase \in {"call", "return", "finish", "throw"}
        /\ called'.method \in Methods(variant)
        /\ Inapplicable(called'.method)) =>
         UNCHANGED <<nodes, edges, structureNodeArray, topIndex, beginIndex,
                     endIndex, activeNode, treeNodes>>]_vars

\* deleteBeforeActiveNode has been refused on the first node of a doubly list
\* that holds more nodes
C25_Witness ==
    /\ variant = "doubly"
    /\ called.method = "deleteBeforeActiveNode" /\ called.phase = "finish"
    /\ logged = <<LogKey("list.deleteBeforeEmpty")>>
    /\ activeNode = 2 /\ Len(nodes) >= 4

DeleteMethods == {"deleteFirstNode", "deleteLastNode", "deleteAfterActiveNode",
                  "deleteBeforeActiveNode"}

\* C26: when a list delete operation has completed, the node array holds no
\* temporary pointer node, neither under its id "temp" nor, renumbered, under
\* its value, and no edge has that node, or a node that is gone, as its
\* source or target.
C26_NoTempPointerAfterDelete ==
    (IsList(variant) /\ called.phase = "finish" /\ called.method \in DeleteMethods)
        => /\ \A i \in DOMAIN nodes :
                 nodes[i].id # temp /\ nodes[i].value # "Temp Pointer"
           /\ \A i \in DOMAIN edges :
                 /\ edges[i].source \notin {temp, undefined}
                 /\ edges[i].target \notin {temp, undefined}

\* deleteAfterActiveNode has finished removing a node that had a successor
C26_Witness ==
    /\ IsList(variant)
    /\ called.method = "deleteAfterActiveNode" /\ called.phase = "finish"
    /\ logged = <<>>
    /\ activeNode # null /\ activeNode < Len(nodes) - 1

\* C27: on a circular list with an active node, activateNextNode moves the
\* active index to the next data node, and from the last data node to the
\* first one, index 1; it never makes the active index null.
C27_NextWrapsToTheFirstNode ==
    [][(/\ variant = "circular" /\ activeNode # null
        /\ called'.method = "activateNextNode" /\ called'.phase = "call") =>
         /\ activeNode' = IF activeNode = Len(nodes) - 1 THEN 1
                          ELSE activeNode + 1
         /\ activeNode' # null]_vars

\* activateNextNode has gone round from the last of several data nodes
C27_Witness ==
    /\ variant = "circular"
    /\ called = Called("activateNextNode", noArg, "call")
    /\ activeNode = 1 /\ Len(nodes) >= 3

\* C28: foremostElement on a stack that holds a value reports the value
\* stored at topIndex and leaves topIndex and the value of every slot as they
\* were; the temporary pointer node "top" it spawned is no longer among the
\* nodes when the call completes.
C28_TopIsReportedAndNothingMoves ==
    [][(/\ variant = "stack" /\ StackHeight > 0
        /\ called'.method = "foremostElement"
        /\ called'.phase \in {"finish", "throw"}) =>
         /\ called'.phase = "finish"
         /\ logged' = <<Str(<<"stack.top">>, FALSE, -1,
                            <<structureNodeArray[topIndex + 1]>>)>>
         /\ UNCHANGED <<topIndex, structureNodeArray>>
         /\ \A i \in DOMAIN nodes' : nodes'[i].id # "top"]_vars

\* foremostElement has reported the top of a stack that holds several values
C28_Witness ==
    /\ variant = "stack"
    /\ called = Called("foremostElement", noArg, "finish")
    /\ logged = <<Str(<<"stack.top">>, FALSE, -1, <<"x">>)>>
    /\ topIndex >= 1 /\ structureNodeArray[topIndex + 1] = "x"

\* the ids and values of a node array, in order, and the source and target
\* pairs of an edge array
idsAndValues(ns) == [i \in DOMAIN ns |-> <<ns[i].id, ns[i].value>>]
pairs(es) == {<<es[i].source, es[i].target>> : i \in DOMAIN es}

\* C29: on a singly linked list in any reachable state, insertFirstNode(x)
\* immediately followed by deleteFirstNode() restores the state before the
\* insert: when the insert has finished, the deleteFirstNode that follows it
\* ends without a throw on the ids and values, in the same order, the edges
\* (source and target pairs) and the active index that the list had before
\* the insert.
C29_InsertThenDeleteFirstRestores ==
    [][(/\ variant = "singly" /\ Len(tasks) = 1
        /\ called'.method = "insertFirstNode" /\ called'.phase = "finish") =>
         LET D == Body(Begin', "deleteFirstNode", noArg)
         IN /\ ~D.crash
            /\ idsAndValues(D.nodes) = idsAndValues(nodes)
            /\ pairs(D.edges) = pairs(edges)
            /\ D.activeNode = activeNode]_vars

\* insertFirstNode has finished in front of two data nodes, the second of
\* them active
C29_Witness ==
    /\ variant = "singly" /\ Settled
    /\ called = Called("insertFirstNode", element, "finish")
    /\ Len(nodes) = 4 /\ activeNode = 3

\* the number of key nodes on the longest path from the row of id down to a
\* leaf: 0 for a null-placeholder, and for a reference that names no row
RECURSIVE LongestPath(_, _, _)
LongestPath(t, id, fuel) ==
    LET i == findIndex(t, LAMBDA n : n.id = id)
    IN IF i = 0 \/ fuel = 0 \/ isNullNode(id) THEN 0
       ELSE 1 + Max({LongestPath(t, t[i].left, fuel - 1),
                     LongestPath(t, t[i].right, fuel - 1)})

\* C30: showHeight logs 0 for a tree with no keys and otherwise the number
\* of key nodes on the longest path from the root to a leaf, 1 for a single
\* key: 1 + max(height of the left subtree, height of the right subtree)
\* with every null-placeholder counting 0.
C30_HeightIsLongestPath ==
    [][(/\ variant = "tree" /\ Len(tasks) = 1
        /\ called'.method = "showHeight"
        /\ called'.phase \in {"finish", "throw"}) =>
         /\ called'.phase = "finish"
         /\ logged' = <<Str(<<"tree.height">>, FALSE, -1,
                            <<LongestPath(treeNodes, treeNodes[1].id,
                                          Len(treeNodes))>>)>>]_vars

\* C31: for a list in any state reached at the end of an operation, running
\* the normalization twice in a row yields the same node array and the same
\* edge array (ids, order, sources, targets, classes) as running it once.
C31_NormalizeGraphIsIdempotent ==
    (IsList(variant) /\ isInit /\ Settled) =>
        LET once == normalizeGraph(Begin)
            twice == normalizeGraph(once)
        IN /\ twice.crash = once.crash
           /\ twice.nodes = once.nodes
           /\ twice.edges = once.edges

\* an operation has finished on a circular list of several data nodes
C31_Witness ==
    /\ variant = "circular" /\ isInit /\ Settled
    /\ called.phase = "finish" /\ called.method \in InsertDelete
    /\ Len(nodes) >= 3 /\ WrapEdges # {}

\* C32: initStructure called on a structure that is already initialized
\* changes nothing: nodes, edges, slots, capacity, cursors, the tree table and
\* both flags stay; for the arrays this holds whatever capacity is passed.
C32_InitStructureOnInitializedChangesNothing ==
    [][(isInit /\ initStructure) => UNCHANGED structure]_vars

\* initStructure has returned on an array that holds values, which a first
\* initStructure never leaves
C32_Witness ==
    /\ IsArray(variant) /\ isInit
    /\ called.method = "initStructure"
    /\ Filled >= 1 /\ initNumber > 1

\* C33: randomStructure invoked while another operation's animation is in
\* flight leaves the nodes, the edges, the slots, the cursors and the tree
\* table unchanged, as resetStructure does.
C33_RandomStructureWaitsForTheAnimation ==
    [][(animationInProcess /\ randomStructure) =>
          UNCHANGED <<nodes, edges, activeNode, treeNodes, structureNodeArray,
                      topIndex, beginIndex, endIndex>>]_vars

\* the keys of the key rows reached from the reference id
keysBelow(t, id) == {k \in reachable(t, {id}) : k \in KeyIds(t)}

\* C34: after any sequence of insertNode and deleteNode with integer keys,
\* negative ones included, the tree is a binary search tree: every key in the
\* left subtree of a key node is smaller than the node's key and every key in
\* its right subtree is larger.
C34_TreeIsOrdered ==
    (variant = "tree" /\ Settled) =>
        \A i \in KeyRows(treeNodes) :
            /\ \A k \in keysBelow(treeNodes, treeNodes[i].left) :
                  Number(k) < Number(treeNodes[i].id)
            /\ \A k \in keysBelow(treeNodes, treeNodes[i].right) :
                  Number(k) > Number(treeNodes[i].id)

\* the key rows of the table as a bag would count them: no key twice
eachKeyOnce(t) == Cardinality(KeyRows(t)) = Cardinality(KeyIds(t))

\* C35: the tree behaves as a set of integers: each completed insertNode(k)
\* adds k to the keys of the table, each completed deleteNode(k) takes k away,
\* so that the keys are those of an abstract set after the same calls, and
\* searchNode(k) logs the found key if k is among them and the not-found key
\* otherwise, exactly one log of the two.
C35_TreeIsASetOfIntegers ==
    [][(/\ variant = "tree" /\ Len(tasks) = 1
        /\ tasks[1].method \in {"insertNode", "deleteNode", "searchNode"}
        /\ called'.phase \in {"finish", "throw"}) =>
         LET k == tasks[1].arg
             set == KeyIds(treeNodes)
         IN /\ called'.phase = "finish"
            /\ eachKeyOnce(treeNodes')
            /\ KeyIds(treeNodes') =
                 IF tasks[1].method = "insertNode" THEN set \cup {k}
                 ELSE IF tasks[1].method = "deleteNode" THEN set \ {k}
                 ELSE set
            /\ tasks[1].method = "searchNode" =>
                 logged' = IF k \in set THEN <<LogKey("tree.searchFound")>>
                           ELSE <<LogKey("tree.searchNotFound")>>]_vars

\* the values of the queue from beginIndex up to endIndex, in ring order
RingLength == (endIndex - beginIndex + initNumber) % initNumber
contents(arr, b) ==
    [i \in 1..RingLength |-> arr[((b + i - 1) % initNumber) + 1]]

\* C36: foremostElement on a queue that is not empty reports the oldest value
\* added and not yet removed, whatever the interleaving of addElement and
\* removeElement and with indices that wrap: the slots from beginIndex to
\* endIndex are a first-in first-out sequence that each accepted addElement
\* extends at its end and each removeElement shortens at its head, and
\* foremostElement logs the head of that sequence and leaves it as it is.
C36_FrontIsTheOldestValue ==
    [][(/\ variant = "queue" /\ Len(tasks) = 1
        /\ called'.phase \in {"finish", "throw"}) =>
         LET fifo == contents(structureNodeArray, beginIndex)
             after == [i \in 1..((endIndex' - beginIndex' + initNumber) % initNumber)
                         |-> structureNodeArray'[((beginIndex' + i - 1) % initNumber) + 1]]
             m == tasks[1].method
         IN /\ called'.phase = "finish"
            /\ (m = "addElement" /\ tasks[1].arg.pre[1] = "notFull")
                  => after = Append(fifo, tasks[1].arg.suf[1])
            /\ (m = "addElement" /\ tasks[1].arg.pre[1] = "full")
                  => after = fifo
            /\ m = "removeElement"
                  => after = IF fifo = <<>> THEN fifo ELSE Tail(fifo)
            /\ m = "foremostElement"
                  => /\ after = fifo
                     /\ fifo # <<>> =>
                          logged' = <<Str(<<"queue.front">>, FALSE, -1,
                                          <<Head(fifo)>>)>>]_vars

\* foremostElement has reported the head of a queue whose values wrap around
\* the end of the array and differ
C36_Witness ==
    /\ variant = "queue" /\ tasks = <<>>
    /\ called = Called("foremostElement", noArg, "finish")
    /\ endIndex < beginIndex /\ RingLength >= 2
    /\ structureNodeArray[beginIndex + 1] #
          structureNodeArray[((endIndex - 1 + initNumber) % initNumber) + 1]
    /\ logged = <<Str(<<"queue.front">>, FALSE, -1,
                      <<structureNodeArray[beginIndex + 1]>>)>>

\* the slots of the ring from beginIndex up to, and excluding, endIndex
RingSlots == {(beginIndex + j) % initNumber : j \in 0..(RingLength - 1)}

\* C37: after any sequence of queue operations on a queue initialized with
\* capacity N, randomStructure included, 0 <= beginIndex < N and
\* 0 <= endIndex < N, and the slots that hold a value are exactly the
\* (endIndex - beginIndex) mod N slots from beginIndex up to but excluding
\* endIndex in ring order.
C37_ValuesFillTheRing ==
    (variant = "queue" /\ isInit /\ tasks = <<>>) =>
        /\ beginIndex \in 0..(initNumber - 1)
        /\ endIndex \in 0..(initNumber - 1)
        /\ {i \in 0..(initNumber - 1) : structureNodeArray[i + 1] # ""} = RingSlots

\* an addElement has completed on a queue whose values wrap around the end
\* of the array
C37_Witness ==
    /\ variant = "queue" /\ isInit /\ tasks = <<>>
    /\ called = Called("addElement", element, "finish")
    /\ endIndex < beginIndex /\ endIndex > 0 /\ RingLength >= 3

\* the positions of the edges that are not the wrap edge
ChainEdges == {i \in DOMAIN edges : ~isCircleEdge(edges[i])}

\* C38: at the completion of every operation on a singly linked list with n
\* data nodes the edge array is exactly the chain 0->1, 1->2, ..., (n-1)->n:
\* n edges, none twice, every endpoint the id of an existing node; for the
\* circular list the same holds once its single wrap edge is set aside.
C38_EdgesAreTheChain ==
    (variant \in {"singly", "circular"} /\ isInit /\ Settled) =>
        LET n == Len(nodes) - 1
        IN /\ Cardinality(ChainEdges) = n
           /\ {<<edges[i].source, edges[i].target>> : i \in ChainEdges}
                 = {<<j - 1, j>> : j \in 1..n}
           /\ \A i \in DOMAIN edges :
                 /\ \E j \in DOMAIN nodes : nodes[j].id = edges[i].source
                 /\ \E j \in DOMAIN nodes : nodes[j].id = edges[i].target
           /\ Len(edges) - n = IF variant = "circular" /\ n >= 1 THEN 1 ELSE 0

\* deleteAfterActiveNode has completed in the middle of a list and left
\* several data nodes
C38_Witness ==
    /\ variant \in {"singly", "circular"} /\ isInit /\ Settled
    /\ called = Called("deleteAfterActiveNode", noArg, "finish")
    /\ activeNode # null /\ activeNode + 1 < Len(nodes)
    /\ Len(nodes) >= 4 /\ Len(edges) >= 3

\* the identities of the node objects, in array order; the fields of the
\* instance hold each object under its position, the record that a method
\* has worked on holds it under the position it had when the method began
refs(ns) == [i \in DOMAIN ns |-> ns[i].ref]

\* C39: in a circular list with at least two data nodes whose active node is
\* the last one, deleteAfterActiveNode removes the first data node; when it
\* has completed, the active index still designates the element it designated
\* before, and that element is the last data node and the source of the wrap
\* edge.
C39_DeleteAfterLastRemovesTheFirst ==
    [][(/\ variant = "circular" /\ Len(tasks) = 1
        /\ tasks[1].method = "deleteAfterActiveNode"
        /\ Len(nodes) >= 3 /\ activeNode = Len(nodes) - 1
        /\ called'.phase \in {"finish", "throw"}) =>
         /\ called'.phase = "finish"
         /\ LET done == Body(Begin, "deleteAfterActiveNode", tasks[1].arg)
            IN /\ refs(done.nodes) = refs(splice(nodes, 2))
               /\ done.activeNode # null
               /\ done.nodes[done.activeNode + 1].ref = nodes[activeNode + 1].ref
               /\ activeNode' = done.activeNode
               /\ Len(nodes') = Len(done.nodes)
         /\ activeNode' = Len(nodes') - 1
         /\ \E i \in DOMAIN edges' :
               /\ {j \in DOMAIN edges' : isCircleEdge(edges'[j])} = {i}
               /\ edges'[i].source = nodes'[activeNode' + 1].id
               /\ edges'[i].target = nodes'[2].id]_vars

\* deleteAfterActiveNode has completed by way of deleteFirstNode on a
\* circular list whose last node was and is active
C39_Witness ==
    /\ variant = "circular" /\ Settled
    /\ called = Called("deleteAfterActiveNode", noArg, "finish")
    /\ Len(nodes) >= 3 /\ activeNode = Len(nodes) - 1
    /\ logged = <<>> /\ reported = <<FALSE, TRUE, FALSE>>

\* C40: whenever an operation finds that it does not apply, as deleteFirstNode
\* and deleteLastNode do on an empty list, it leaves through
\* afterAnimationWithoutChange: the flag is cleared at once, with no closing
\* centering status and no further wait, whether centering is enabled or not.
C40_InapplicableEndsWithoutChange ==
    [][(/\ isInit /\ Len(tasks) = 1
        /\ called'.phase \in {"finish", "throw"}
        /\ Inapplicable(tasks[1].method)) =>
         /\ called'.phase = "finish"
         /\ ~animationInProcess'
         /\ \A centeringEnable \in BOOLEAN :
               closing(Body(Begin, tasks[1].method, tasks[1].arg).ending,
                       centeringEnable)
                 = [status |-> <<"">>, waits |-> 0]]_vars

====
